---- MODULE Spec2Model ----
(***************************************************************************)
(* express-zod-openapi-typed: the request/response validation pipeline of  *)
(* a typed route (src/src/typed-router.ts), the process-wide configuration *)
(* (config.ts), the validation errors (errors.ts) and the part of the      *)
(* document generator (src/src/swagger.ts) that lists the registered       *)
(* routes.                                                                 *)
(*                                                                         *)
(* Specification Spec: one typed route has been declared on a router; one  *)
(* request to it is dispatched and runs through the validation middleware, *)
(* the route handler and error resolution, while setGlobalErrorHandler may *)
(* be called at any moment.                                                *)
(*                                                                         *)
(* Specification SpecDoc: routes are declared on an empty router, the      *)
(* document is generated at any moment, and one request is dispatched to   *)
(* one of the declared routes.                                             *)
(***************************************************************************)
EXTENDS Integers, Sequences, FiniteSets, TLC

\* ------------------------------------------------------------------ bounds
\* Depth of nested res.json frames after which the engine raises RangeError.
MaxStack == 3
\* Number of res.status calls the route handler makes before it emits.
MaxStatusCalls == 1
\* Number of routes declared in SpecDoc.
MaxRoutes == 2

\* ------------------------------------------------------- JavaScript values
Undefined == [undefined |-> TRUE]
IsDefined(x) == x # Undefined

Str(x) == [t |-> "string", v |-> x]
Num(x) == [t |-> "number", v |-> x]
Bool(x) == [t |-> "boolean", v |-> x]
Obj(x) == [t |-> "object", v |-> x]

EmptyObject == [k \in {} |-> Undefined]

\* Object.assign(target, source): own keys of source overwrite target's.
ObjectAssign(target, source) ==
  [k \in (DOMAIN target) \cup (DOMAIN source) |->
     IF k \in DOMAIN source THEN source[k] ELSE target[k]]

\* ------------------------------------------------------------ zod schemas
ZString == [typeName |-> "ZodString"]
ZBoolean == [typeName |-> "ZodBoolean"]
ZCoerceNumber == [typeName |-> "ZodNumber", coerce |-> TRUE]
ZObject(shape) == [typeName |-> "ZodObject", shape |-> shape]

NumericStrings == {"1"}

FieldValid(zt, v) ==
  CASE zt.typeName = "ZodString" -> v.t = "string"
    [] zt.typeName = "ZodBoolean" -> v.t = "boolean"
    [] zt.typeName = "ZodNumber" ->
         \/ v.t = "number"
         \/ zt.coerce /\ v.t = "string" /\ v.v \in NumericStrings
    [] OTHER -> TRUE

FieldCoerce(zt, v) ==
  IF zt.typeName = "ZodNumber" /\ v.t = "string" THEN Num(v.v) ELSE v

FieldIssues(zschema, value) ==
  {f \in DOMAIN zschema.shape :
     ~(f \in DOMAIN value /\ FieldValid(zschema.shape[f], value[f]))}

\* schema.safeParse / safeParseAsync of an object schema (unknown keys are
\* stripped, declared fields are coerced).
safeParse(zschema, value) ==
  LET bad == FieldIssues(zschema, value) IN
  IF bad = {}
  THEN [success |-> TRUE,
        data |-> [f \in DOMAIN zschema.shape |->
                    FieldCoerce(zschema.shape[f], value[f])]]
  ELSE [success |-> FALSE, data |-> Undefined,
        error |-> [path |-> <<>>, fieldErrors |-> bad]]

\* ------------------------------------------------------- request segments
SegmentOrderSwapped == <<"body", "params", "querystring", "headers">>
\* The order of the four parse blocks of the validation middleware.
SegmentOrder == <<"body", "querystring", "params", "headers">>

SegmentNames == {"body", "querystring", "params", "headers"}

\* The request container a segment is read from and written to.
ContainerOf(seg) == IF seg = "querystring" THEN "query" ELSE seg

\* Schema every declared request segment uses: z.object({a: z.coerce.number()})
SegmentSchema == ZObject([a |-> ZCoerceNumber])

RawValid == [a |-> Str("1"), x |-> Str("y")]
RawInvalid == [a |-> Str("abc"), x |-> Str("y")]
RawInputs == {RawValid, RawInvalid}

\* ------------------------------------------------------- response schemas
SuccessSchema == ZObject([success |-> ZBoolean])
ErrorSchema == ZObject([error |-> ZString])

OkBody == [success |-> Bool("true")]
BadBody == [success |-> Str("yes")]
FooBody == [foo |-> Num("1")]
HandlerBodies == {OkBody, BadBody, FooBody}
HandlerStatusCodes == {200, 201}

EmptyMap == [c \in {} |-> Undefined]
\* z.object({error: z.string()}) and z.object({message: z.string()})
MessageSchema == ZObject([message |-> ZString])

\* schema.response: absent, or a map status code -> schema.
NoResponse == [declared |-> FALSE, map |-> EmptyMap]
ResponseMap(m) == [declared |-> TRUE, map |-> m]
ResponseMaps ==
  {NoResponse,
   ResponseMap([c \in {200} |-> SuccessSchema]),
   ResponseMap([c \in {200, 500} |-> IF c = 200 THEN SuccessSchema ELSE ErrorSchema]),
   ResponseMap([c \in {200, 500} |-> IF c = 200 THEN SuccessSchema ELSE MessageSchema])}

\* ------------------------------------------------------------ file fields
\* schema.files: absent, or {avatar: {required: true, maxCount: 1}}
NoFiles == [declared |-> FALSE, fields |-> <<>>]
AvatarFiles ==
  [declared |-> TRUE,
   fields |-> <<[fieldName |-> "avatar", required |-> TRUE, maxCount |-> 1]>>]
FileConfigs == {NoFiles, AvatarFiles}

\* What the upload middleware left on the request: req.file and req.files.
\* req.files is absent or a field-name-keyed collection of file arrays,
\* given here by the number of files captured per field name.
NoUpload == [file |-> Undefined, files |-> Undefined]
SingleUpload == [file |-> [fieldname |-> "avatar"], files |-> Undefined]
FieldsUpload(n) == [file |-> Undefined, files |-> [avatar |-> n]]
Uploads == {NoUpload, SingleUpload, FieldsUpload(1), FieldsUpload(2)}

\* ---------------------------------------------------------- error handlers
RouteErrorHandler == [name |-> "routeErrorHandler", impl |-> "custom"]
GlobalCustomHandler == [name |-> "globalErrorHandler", impl |-> "custom"]
DefaultErrorHandlerValue == [name |-> "defaultErrorHandler", impl |-> "default"]
GlobalHandlers == {GlobalCustomHandler, DefaultErrorHandlerValue}

\* ------------------------------------------------------ route declarations
SegmentSets == {{}, {"body", "params"}, {"querystring", "headers"}, SegmentNames}

RouteSchema(files, segs, response, hide) ==
  [files |-> files,
   body |-> IF "body" \in segs THEN SegmentSchema ELSE Undefined,
   querystring |-> IF "querystring" \in segs THEN SegmentSchema ELSE Undefined,
   params |-> IF "params" \in segs THEN SegmentSchema ELSE Undefined,
   headers |-> IF "headers" \in segs THEN SegmentSchema ELSE Undefined,
   response |-> response,
   hide |-> hide]

RouteSchemaOf(files, body, querystring, params, headers, response, hide) ==
  [files |-> files, body |-> body, querystring |-> querystring, params |-> params,
   headers |-> headers, response |-> response, hide |-> hide]

\* The schemas of the route declared in Spec (hidden routes: see SpecDoc).
RouteSchemas ==
  {RouteSchema(f, s, r, FALSE) :
     f \in FileConfigs, s \in SegmentSets, r \in ResponseMaps}

Methods == {"get", "post"}
\* '/u/:id'
RoutePath == <<"/", "u", "/", ":", "i", "d">>
BasePath == <<"/", "v">>


\* ------------------------------------------------------------------ errors
RequestValidationErrorDetached(segment, zodError, request) ==
  [name |-> "RequestValidationError", segment |-> segment,
   validationError |-> zodError, request |-> Undefined]
\* new RequestValidationError(segment, validationError, request)
RequestValidationError(segment, zodError, request) ==
  [name |-> "RequestValidationError", segment |-> segment,
   validationError |-> zodError, request |-> request]

\* new ResponseValidationError(statusCode, validationError, req, res, body)
ResponseValidationError(statusCode, zodError, request, body) ==
  [name |-> "ResponseValidationError", statusCode |-> statusCode,
   validationError |-> zodError, request |-> request, response |-> "res",
   responseBody |-> body]

\* error.fieldErrors: validationError.flatten().fieldErrors, named by the
\* first key of the flattened object ('{}' when it has none).
fieldErrors(error) ==
  LET ze == error.validationError IN
  IF ze.path # <<>> THEN Obj(ze.path[1])
  ELSE IF ze.fieldErrors = {} THEN Obj("{}")
  ELSE Obj(CHOOSE f \in ze.fieldErrors : TRUE)

\* ------------------------------------------------------------ files-check
\* files[fieldName]: the number of files captured for the name (0: none).
FilesLookup(rq, fieldName) ==
  IF IsDefined(rq.files) /\ fieldName \in DOMAIN rq.files
  THEN rq.files[fieldName] ELSE 0

hasFile(rq, fieldName) ==
  \/ IsDefined(rq.file) /\ rq.file.fieldname = fieldName
  \/ FilesLookup(rq, fieldName) > 0

RECURSIVE missingFiles(_, _, _)
\* The entries pushed on missingFiles by the forEach over schema.files.
missingFiles(fields, rq, i) ==
  IF i > Len(fields) THEN <<>>
  ELSE LET cfg == fields[i]
           absent == IF cfg.required /\ ~hasFile(rq, cfg.fieldName)
                     THEN <<[field |-> cfg.fieldName, why |-> "missing"]>>
                     ELSE <<>>
           excess == IF /\ "maxCount" \in DOMAIN cfg
                        /\ cfg.maxCount # 0
                        /\ FilesLookup(rq, cfg.fieldName) > cfg.maxCount
                     THEN <<[field |-> cfg.fieldName, why |-> "max"]>>
                     ELSE <<>>
       IN absent \o excess \o missingFiles(fields, rq, i + 1)

\* new z.ZodError([{code: 'custom', message: ..., path: ['files']}])
FilesZodError(missing) ==
  [path |-> <<"files">>, fieldErrors |-> {}, message |-> missing]

\* ------------------------------------------------------- error resolution
ResolverGlobalFirst(routeErrorHandler, globalErrorHandler) ==
  IF IsDefined(globalErrorHandler)
  THEN [kind |-> "global", handler |-> globalErrorHandler]
  ELSE IF IsDefined(routeErrorHandler)
  THEN [kind |-> "route", handler |-> routeErrorHandler]
  ELSE [kind |-> "default", handler |-> Undefined]

\* if (routeErrorHandler) ... if (globalErrorHandler) ... next(error)
Resolver(routeErrorHandler, globalErrorHandler) ==
  IF IsDefined(routeErrorHandler)
  THEN [kind |-> "route", handler |-> routeErrorHandler]
  ELSE IF IsDefined(globalErrorHandler)
  THEN [kind |-> "global", handler |-> globalErrorHandler]
  ELSE [kind |-> "default", handler |-> Undefined]

errorMessages(segment) ==
  CASE segment = "body" -> "Body validation failed."
    [] segment = "querystring" -> "Query string validation failed."
    [] segment = "params" -> "Params validation failed."
    [] segment = "headers" -> "Headers validation failed."

\* defaultErrorHandler: the res.status(code).json(body) it performs.
defaultErrorHandler(error) ==
  IF error.name = "RequestValidationError"
  THEN [code |-> 400,
        body |-> [message |-> Str(errorMessages(error.segment)),
                  status |-> Str("error"),
                  errors |-> fieldErrors(error)]]
  ELSE [code |-> 500,
        body |-> [message |-> Str("Internal error: server response does not match expected schema."),
                  status |-> Str("error"),
                  errors |-> fieldErrors(error)]]

\* The custom handler of the README: 422 for a request failure, 500 for a
\* response failure.
customErrorHandler(error) ==
  IF error.name = "RequestValidationError"
  THEN [code |-> 422,
        body |-> [success |-> Bool("false"),
                  message |-> Str("Invalid " \o error.segment),
                  errors |-> fieldErrors(error)]]
  ELSE [code |-> 500,
        body |-> [success |-> Bool("false"),
                  message |-> Str("Internal Server Error")]]

HandlerResponse(h, error) ==
  IF h.impl = "default" THEN defaultErrorHandler(error)
  ELSE customErrorHandler(error)

\* ------------------------------------------------------ route registration
toUpperCase(method) ==
  CASE method = "get" -> "GET" [] method = "post" -> "POST"
    [] method = "put" -> "PUT" [] method = "delete" -> "DELETE"
    [] method = "patch" -> "PATCH"

toLowerCase(method) ==
  CASE method = "GET" -> "get" [] method = "POST" -> "post"
    [] method = "PUT" -> "put" [] method = "DELETE" -> "delete"
    [] method = "PATCH" -> "patch"

\* createValidationMiddleware(schema, routeErrorHandler): the closure.
createValidationMiddleware(schema, routeErrorHandler) ==
  [schema |-> schema, routeErrorHandler |-> routeErrorHandler]

pushRouteMetadataFront(meta, method, path, schema) ==
  IF ~schema.hide
  THEN <<[method |-> toUpperCase(method), path |-> path, schema |-> schema]>> \o meta
  ELSE meta

pushRouteMetadataAlways(meta, method, path, schema) ==
  Append(meta, [method |-> toUpperCase(method), path |-> path, schema |-> schema])

\* if (!schema.hide) routesMetadata.push({method: method.toUpperCase(), path, schema})
pushRouteMetadata(meta, method, path, schema) ==
  IF ~schema.hide
  THEN Append(meta, [method |-> toUpperCase(method), path |-> path, schema |-> schema])
  ELSE meta

allMiddlewaresReversed(middlewares) ==
  [k \in 1..Len(middlewares) |-> middlewares[Len(middlewares) + 1 - k]]
    \o <<"validationMiddleware">>
\* middlewares ? [...middlewares, validationMiddleware] : [validationMiddleware]
allMiddlewares(middlewares) == middlewares \o <<"validationMiddleware">>

\* expressRouter[method](path, ...allMiddlewares, handler) on the Express router
\* of the typed router `instance`; `router` lists the routes installed so far
\* on all instances, in declaration order.
installRoute(router, instance, method, path, schema, handler, errorHandler, middlewares) ==
  Append(router,
         [router |-> instance, method |-> method, path |-> path,
          middlewares |-> middlewares,
          chain |-> allMiddlewares(middlewares),
          validationMiddleware |-> createValidationMiddleware(schema, errorHandler),
          handler |-> handler])

\* const handler = handlersAndMiddlewares.pop()
popHandler(handlersAndMiddlewares) == handlersAndMiddlewares[Len(handlersAndMiddlewares)]

\* const middlewares = handlersAndMiddlewares (what is left after the pop)
restMiddlewares(handlersAndMiddlewares) ==
  SubSeq(handlersAndMiddlewares, 1, Len(handlersAndMiddlewares) - 1)

\* ----------------------------------------------------- document generation
RECURSIVE matchEnd(_, _)
\* End of the run of non-'/' characters of s that starts at position i.
matchEnd(s, i) ==
  IF i > Len(s) \/ s[i] = "/" THEN i - 1 ELSE matchEnd(s, i + 1)

RECURSIVE replaceParams(_, _)
\* s.replace(/\/:([^/]+)/g, '/{$1}') from position i on.
replaceParams(s, i) ==
  IF i > Len(s) THEN <<>>
  ELSE IF /\ s[i] = "/"
          /\ i + 2 <= Len(s)
          /\ s[i + 1] = ":"
          /\ s[i + 2] # "/"
       THEN LET e == matchEnd(s, i + 2) IN
            <<"/", "{">> \o SubSeq(s, i + 2, e) \o <<"}">> \o replaceParams(s, e + 1)
       ELSE <<s[i]>> \o replaceParams(s, i + 1)

fullPath(basePath, path) == replaceParams(basePath \o path, 1)

\* ------------------------------------------------- schema nodes (wrappers)
\* The schema kinds the translator distinguishes, as it sees them through
\* _def: typeName and the field that holds the wrapped schema.
ZNumber == [typeName |-> "ZodNumber", coerce |-> FALSE]
ZAny == [typeName |-> "ZodAny"]
ZStringWith(checks) == [typeName |-> "ZodString", checks |-> checks]
ZNumberWith(checks) == [typeName |-> "ZodNumber", coerce |-> FALSE, checks |-> checks]
ZArray(element) == [typeName |-> "ZodArray", type |-> element]
ZEnum(values) == [typeName |-> "ZodEnum", values |-> values]
ZDate == [typeName |-> "ZodDate"]
ZLazy == [typeName |-> "ZodLazy"]
\* z.lazy(() => schema): the getter is kept as the name of the schema it
\* returns, so that a schema can refer to itself.
ZLazyOf(name) == [typeName |-> "ZodLazy", getter |-> name]

ZOptional(inner) == [typeName |-> "ZodOptional", innerType |-> inner]
ZNullable(inner) == [typeName |-> "ZodNullable", innerType |-> inner]
\* schema.nullish() is schema.nullable().optional()
ZNullish(inner) == ZOptional(ZNullable(inner))
ZDefault(inner, value) ==
  [typeName |-> "ZodDefault", innerType |-> inner, defaultValue |-> value]
ZEffects(inner) == [typeName |-> "ZodEffects", schema |-> inner]
ZBranded(inner) == [typeName |-> "ZodBranded", type |-> inner]
ZReadonly(inner) == [typeName |-> "ZodReadonly", innerType |-> inner]
ZCatch(inner) == [typeName |-> "ZodCatch", innerType |-> inner]
ZPipeline(in, out) == [typeName |-> "ZodPipeline", in |-> in, out |-> out]

\* schema.describe(text)
Describe(zschema, text) ==
  [k \in (DOMAIN zschema) \cup {"description"} |->
     IF k = "description" THEN text ELSE zschema[k]]

\* z.object({k1: s1, ..., kn: sn}): the shape and the order of its keys.
ZObjectOf(entries) ==
  [typeName |-> "ZodObject",
   shape |-> [k \in {entries[i][1] : i \in 1..Len(entries)} |->
                entries[CHOOSE i \in 1..Len(entries) : entries[i][1] = k][2]],
   keys |-> [i \in 1..Len(entries) |-> entries[i][1]]]

RECURSIVE SetToSeq(_)
SetToSeq(S) ==
  IF S = {} THEN <<>>
  ELSE LET e == CHOOSE x \in S : TRUE IN <<e>> \o SetToSeq(S \ {e})

\* Object.keys(shape): insertion order.
ShapeKeys(zschema) ==
  IF "keys" \in DOMAIN zschema THEN zschema.keys ELSE SetToSeq(DOMAIN zschema.shape)

RECURSIVE isOptional(_)
\* schema.isOptional(): whether the schema accepts undefined.
isOptional(zschema) ==
  LET t == zschema.typeName IN
  CASE t \in {"ZodOptional", "ZodDefault", "ZodCatch", "ZodAny"} -> TRUE
    [] t \in {"ZodNullable", "ZodReadonly"} -> isOptional(zschema.innerType)
    [] t = "ZodEffects" -> isOptional(zschema.schema)
    [] t = "ZodBranded" -> isOptional(zschema.type)
    [] t = "ZodPipeline" -> isOptional(zschema.in) /\ isOptional(zschema.out)
    [] OTHER -> FALSE

\* ------------------------------------------------------ schema translation
\* fragment[key] = value
With(fragment, key, value) ==
  [k \in (DOMAIN fragment) \cup {key} |-> IF k = key THEN value ELSE fragment[k]]

\* delete fragment[key]
Without(fragment, key) == [k \in (DOMAIN fragment) \ {key} |-> fragment[k]]

EmptyFragment == [k \in {} |-> Undefined]

\* schema.description || def.description ("" where there is none: both are
\* falsy in the tests below)
descriptionOf(zschema) ==
  IF "description" \in DOMAIN zschema THEN zschema.description ELSE ""

\* if (description && innerSchema) innerSchema.description = description
withDescription(fragment, description) ==
  IF description # "" /\ IsDefined(fragment)
  THEN With(fragment, "description", description) ELSE fragment

withNullableDropped(fragment) == fragment
\* if (innerSchema) innerSchema.nullable = true
withNullable(fragment) ==
  IF IsDefined(fragment) THEN With(fragment, "nullable", TRUE) ELSE fragment

\* if (innerSchema) innerSchema.readOnly = true
withReadOnly(fragment) ==
  IF IsDefined(fragment) THEN With(fragment, "readOnly", TRUE) ELSE fragment

\* if (innerSchema && def.defaultValue !== undefined) innerSchema.default = ...
withDefault(fragment, value) ==
  IF IsDefined(fragment) /\ IsDefined(value)
  THEN With(fragment, "default", value) ELSE fragment

RECURSIVE stringChecks(_, _, _)
\* The loop over def.checks of a string schema.
stringChecks(result, checks, i) ==
  IF i > Len(checks) THEN result
  ELSE LET c == checks[i]
           r == CASE c.kind = "uuid" -> With(result, "format", "uuid")
                  [] c.kind = "email" -> With(result, "format", "email")
                  [] c.kind = "url" -> With(result, "format", "uri")
                  [] c.kind = "datetime" -> With(result, "format", "date-time")
                  [] c.kind = "date" -> With(result, "format", "date")
                  [] c.kind = "time" -> With(result, "format", "time")
                  [] c.kind = "min" -> With(result, "minLength", c.value)
                  [] c.kind = "max" -> With(result, "maxLength", c.value)
                  [] c.kind = "length" ->
                       With(With(result, "minLength", c.value), "maxLength", c.value)
                  [] OTHER -> result
       IN stringChecks(r, checks, i + 1)

RECURSIVE numberChecks(_, _, _)
\* The loop over def.checks of a number schema.
numberChecks(result, checks, i) ==
  IF i > Len(checks) THEN result
  ELSE LET c == checks[i]
           r == CASE c.kind = "int" -> With(result, "type", "integer")
                  [] c.kind = "min" ->
                       IF c.inclusive THEN With(result, "minimum", c.value)
                       ELSE With(With(result, "minimum", c.value), "exclusiveMinimum", TRUE)
                  [] c.kind = "max" ->
                       IF c.inclusive THEN With(result, "maximum", c.value)
                       ELSE With(With(result, "maximum", c.value), "exclusiveMaximum", TRUE)
                  [] c.kind = "multipleOf" -> With(result, "multipleOf", c.value)
                  [] OTHER -> result
       IN numberChecks(r, checks, i + 1)

checksOf(zschema) == IF "checks" \in DOMAIN zschema THEN zschema.checks ELSE <<>>

requiredOfAll(zschema) == ShapeKeys(zschema)
\* The required array of an object schema: the keys, in order, whose field
\* reports isOptional() false.
requiredOf(zschema) ==
  LET keep(k) == ~isOptional(zschema.shape[k]) IN SelectSeq(ShapeKeys(zschema), keep)

\* const Category = z.object({name: z.string(),
\*                            children: z.array(z.lazy(() => Category))})
Category ==
  ZObjectOf(<< <<"name", ZString>>, <<"children", ZArray(ZLazyOf("Category"))>> >>)

\* def.getter()
getterOf(zschema) == CASE zschema.getter = "Category" -> Category

lazyAsReferent(zschema) ==
  IF "getter" \in DOMAIN zschema
  THEN [type |-> "object",
        properties |-> [k \in DOMAIN getterOf(zschema).shape |-> [type |-> "object"]]]
  ELSE [type |-> "object"]
\* return { type: 'object', ... }: the getter of a lazy schema is not called.
lazyFragment(zschema) == [type |-> "object"]

\* A value that is no schema: it has neither _def nor def.
HasDef(zschema) == "typeName" \in DOMAIN zschema

fallbackNothing == EmptyFragment
\* { type: 'string' }: what a value without definition and a kind the switch
\* does not know are translated to.
fallbackFragment == [type |-> "string"]

RECURSIVE zodSchemaToOpenAPISchema(_)
zodSchemaToOpenAPISchema(zschema) ==
  IF ~IsDefined(zschema) THEN Undefined
  ELSE IF ~HasDef(zschema) THEN fallbackFragment
  ELSE
  LET t == zschema.typeName
      description == descriptionOf(zschema)
  IN
  CASE t = "ZodOptional" ->
         withDescription(zodSchemaToOpenAPISchema(zschema.innerType), description)
    [] t = "ZodNullable" ->
         withDescription(withNullable(zodSchemaToOpenAPISchema(zschema.innerType)),
                         description)
    [] t = "ZodDefault" ->
         withDescription(withDefault(zodSchemaToOpenAPISchema(zschema.innerType),
                                     zschema.defaultValue),
                         description)
    [] t = "ZodEffects" ->
         withDescription(zodSchemaToOpenAPISchema(zschema.schema), description)
    [] t = "ZodNullish" ->
         withDescription(withNullable(zodSchemaToOpenAPISchema(zschema.innerType)),
                         description)
    [] t = "ZodBranded" ->
         withDescription(zodSchemaToOpenAPISchema(zschema.type), description)
    [] t = "ZodReadonly" ->
         withDescription(withReadOnly(zodSchemaToOpenAPISchema(zschema.innerType)),
                         description)
    [] t = "ZodCatch" ->
         withDescription(zodSchemaToOpenAPISchema(zschema.innerType), description)
    [] t = "ZodPipeline" ->
         withDescription(zodSchemaToOpenAPISchema(zschema.out), description)
    [] t = "ZodLazy" ->
         withDescription(lazyFragment(zschema), description)
    [] t = "ZodPromise" -> zodSchemaToOpenAPISchema(zschema.type)
    [] t = "ZodString" ->
         withDescription(stringChecks([type |-> "string"], checksOf(zschema), 1),
                         description)
    [] t = "ZodNumber" ->
         withDescription(numberChecks([type |-> "number"], checksOf(zschema), 1),
                         description)
    [] t = "ZodBoolean" -> withDescription([type |-> "boolean"], description)
    [] t = "ZodArray" ->
         withDescription([type |-> "array",
                          items |-> zodSchemaToOpenAPISchema(zschema.type)],
                         description)
    [] t = "ZodObject" ->
         LET properties == [k \in DOMAIN zschema.shape |->
                              zodSchemaToOpenAPISchema(zschema.shape[k])]
             required == requiredOf(zschema)
             result == [type |-> "object", properties |-> properties]
         IN withDescription(IF Len(required) > 0
                            THEN With(result, "required", required)
                            ELSE result,
                            description)
    [] t = "ZodEnum" ->
         withDescription([type |-> "string", enum |-> zschema.values], description)
    [] t = "ZodDate" ->
         withDescription([type |-> "string", format |-> "date-time"], description)
    [] t = "ZodAny" -> withDescription(EmptyFragment, description)
    [] OTHER -> withDescription(fallbackFragment, description)

MaxOf(S) == IF S = {} THEN 0 ELSE CHOOSE x \in S : \A y \in S : y <= x

RECURSIVE recursionDepth(_)
\* The depth of nested zodSchemaToOpenAPISchema calls a call on zschema
\* reaches: one for the call itself plus the deepest call it makes.
recursionDepth(zschema) ==
  IF ~IsDefined(zschema) THEN 1
  ELSE IF ~HasDef(zschema) THEN 1
  ELSE LET t == zschema.typeName IN
  CASE t \in {"ZodOptional", "ZodNullable", "ZodDefault", "ZodNullish",
              "ZodReadonly", "ZodCatch"} -> 1 + recursionDepth(zschema.innerType)
    [] t = "ZodEffects" -> 1 + recursionDepth(zschema.schema)
    [] t \in {"ZodBranded", "ZodPromise", "ZodArray"} -> 1 + recursionDepth(zschema.type)
    [] t = "ZodPipeline" -> 1 + recursionDepth(zschema.out)
    [] t = "ZodObject" ->
         1 + MaxOf({recursionDepth(zschema.shape[k]) : k \in DOMAIN zschema.shape})
    [] OTHER -> 1

\* --------------------------------------------------------------- parameters
RECURSIVE parametersFrom(_, _, _, _)
\* The for-loop of extractParameters over the entries of the shape.
parametersFrom(zschema, keys, i, paramType) ==
  IF i > Len(keys) THEN <<>>
  ELSE LET paramSchema == zschema.shape[keys[i]]
           description == descriptionOf(paramSchema)
           translated == zodSchemaToOpenAPISchema(paramSchema)
           openApiSchema == IF IsDefined(translated) /\ "description" \in DOMAIN translated
                            THEN Without(translated, "description") ELSE translated
           param == [name |-> keys[i],
                     in |-> paramType,
                     required |-> IF paramType = "path" THEN TRUE
                                  ELSE ~isOptional(paramSchema),
                     schema |-> openApiSchema]
       IN <<withDescription(param, description)>>
            \o parametersFrom(zschema, keys, i + 1, paramType)

extractParametersOptionalPath(zschema, paramType) ==
  IF ~IsDefined(zschema) THEN <<>>
  ELSE IF zschema.typeName # "ZodObject" THEN <<>>
  ELSE parametersFrom(zschema, ShapeKeys(zschema), 1, "query")
\* extractParameters(schema, paramType)
extractParameters(zschema, paramType) ==
  IF ~IsDefined(zschema) THEN <<>>
  ELSE IF zschema.typeName # "ZodObject" THEN <<>>
  ELSE parametersFrom(zschema, ShapeKeys(zschema), 1, paramType)

\* --------------------------------------------------------------- responses
\* {description: `Response ${statusCode}`, content: {'application/json': {schema}}}
responseEntry(statusCode, zodSchema) ==
  [description |-> "Response " \o ToString(statusCode),
   content |-> [mediaType |-> "application/json", schema |-> zodSchema]]

\* Object.entries(map).forEach(([statusCode, zodSchema]) => responses[statusCode] = ...)
assignResponses(responses, map) ==
  [c \in (DOMAIN responses) \cup (DOMAIN map) |->
     IF c \in DOMAIN map THEN responseEntry(c, map[c]) ELSE responses[c]]

BareResponse == [c \in {200} |-> [description |-> "Successful response"]]

buildResponsesRouteFirst(response, defaultResponses) ==
  LET r1 == IF response.declared THEN assignResponses(EmptyMap, response.map) ELSE EmptyMap
      r0 == IF defaultResponses.declared
            THEN assignResponses(r1, defaultResponses.map) ELSE r1
  IN IF ~response.declared /\ ~defaultResponses.declared THEN BareResponse ELSE r0
\* The responses of one operation: the global defaults, then the route's
\* own, else the bare 200.
buildResponses(response, defaultResponses) ==
  LET r0 == IF defaultResponses.declared
            THEN assignResponses(EmptyMap, defaultResponses.map) ELSE EmptyMap
  IN IF response.declared THEN assignResponses(r0, response.map)
     ELSE IF ~defaultResponses.declared THEN BareResponse
     ELSE r0

\* ------------------------------------------------------------ request body
RECURSIVE fileProperties(_, _, _)
\* properties[fieldName] = {type: 'string', format: 'binary', description}
fileProperties(properties, fields, i) ==
  IF i > Len(fields) THEN properties
  ELSE fileProperties(With(properties, fields[i].fieldName,
                           [type |-> "string", format |-> "binary"]),
                      fields, i + 1)

RECURSIVE bodyProperties(_, _, _, _)
\* properties[key] = zodSchemaToOpenAPISchema(value) for the body's fields
bodyProperties(properties, zschema, keys, i) ==
  IF i > Len(keys) THEN properties
  ELSE bodyProperties(With(properties, keys[i],
                           zodSchemaToOpenAPISchema(zschema.shape[keys[i]])),
                      zschema, keys, i + 1)

\* The request of one operation: multipart/form-data when files are
\* declared, application/json when only a body is, nothing otherwise.
buildRequest(schema) ==
  IF schema.files.declared
  THEN LET isRequiredFile(f) == f.required
           requiredFiles == SelectSeq(schema.files.fields, isRequiredFile)
           fileNames == [i \in 1..Len(requiredFiles) |-> requiredFiles[i].fieldName]
           bodyIsObject == IsDefined(schema.body) /\ schema.body.typeName = "ZodObject"
           p0 == fileProperties(EmptyFragment, schema.files.fields, 1)
           properties == IF bodyIsObject
                         THEN bodyProperties(p0, schema.body, ShapeKeys(schema.body), 1)
                         ELSE p0
           required == IF bodyIsObject THEN fileNames \o requiredOf(schema.body)
                       ELSE fileNames
           form == [type |-> "object", properties |-> properties]
       IN [body |-> [mediaType |-> "multipart/form-data",
                     schema |-> IF Len(required) > 0
                                THEN With(form, "required", required) ELSE form]]
  ELSE IF IsDefined(schema.body)
  THEN [body |-> [mediaType |-> "application/json", schema |-> schema.body]]
  ELSE EmptyFragment

\* The route configuration handed to registry.registerPath for one route.
operationOf(route, basePath, defaultResponses) ==
  LET parameters == extractParameters(route.schema.params, "path")
                      \o extractParameters(route.schema.querystring, "query")
                      \o extractParameters(route.schema.headers, "header")
      request == buildRequest(route.schema)
      op0 == [method |-> toLowerCase(route.method),
              path |-> fullPath(basePath, route.path),
              responses |-> buildResponses(route.schema.response, defaultResponses)]
      op1 == IF Len(parameters) > 0 THEN With(op0, "parameters", parameters) ELSE op0
  IN IF DOMAIN request # {} THEN With(op1, "request", request) ELSE op1


\* ------------------------------------------------------------------- state
VARIABLES
  config,          \* GlobalConfig of config.ts
  routesMetadata,  \* the contract registry of typed-router.ts
  expressRouter,   \* the routes installed on the Express router
  document,        \* the last document returned by generateOpenAPISpec
  target,          \* index in expressRouter of the route of the request
  pc,              \* where the request is
  req,             \* the request object
  rawReq,          \* the request as the router dispatched it
  res,             \* the response object
  mw,              \* locals of the validation middleware invocation
  errors,          \* validation errors constructed, in order
  nextCalls,       \* arguments of the calls of next, in order
  resolutions,     \* resolvers invoked, in order
  events,          \* parse / replace / res.status / res.json calls, in order
  handlerCalls,    \* invocations of the route handler
  stack,           \* nested res.json frames of the wrapped emit primitive
  parked,          \* the other request in flight, suspended at an await
  lastCall,        \* what the last generateOpenAPISpec call read
  schemaNode,      \* the schema handed to zodSchemaToOpenAPISchema
  openApiSchema    \* the fragment zodSchemaToOpenAPISchema returned

vars == <<config, routesMetadata, expressRouter, document, target, pc, req, rawReq,
          res, mw,
          errors, nextCalls, resolutions, events, handlerCalls, stack,
          parked, lastCall, schemaNode, openApiSchema>>

Layer == expressRouter[target]
Closure == Layer.validationMiddleware

\* getGlobalErrorHandler()
getGlobalErrorHandler == config.errorHandler

\* getDefaultResponses()
getDefaultResponses == config.defaultResponses

staleOpenAPIRegistry == IF IsDefined(document) THEN document.operations ELSE <<>>
\* new OpenAPIRegistry(): the definitions registered so far, none.
newOpenAPIRegistry == <<>>

\* generateOpenAPISpec: one registerPath call per entry of routesMetadata on
\* a new registry; the document lists the registered definitions.
generateOpenAPISpec(routes, basePath) ==
  LET definitions ==
        newOpenAPIRegistry
          \o [i \in 1..Len(routes) |->
                operationOf(routes[i], basePath, getDefaultResponses)]
  IN [openapi |-> "3.1.0",
      paths |-> [i \in 1..Len(definitions) |->
                   [method |-> definitions[i].method, path |-> definitions[i].path]],
      operations |-> definitions]

liveGlobalErrorHandler(m) == config.errorHandler
\* The globalErrorHandler constant of the middleware invocation, read once
\* on entry and used by every later failure path of the request.
capturedGlobalErrorHandler(m) == m.globalErrorHandler

validationFailedIgnored(result) == FALSE
\* if (!result.success) { ...resolve...; return }
validationFailed(result) == ~result.success

RECURSIVE FirstDeclared(_, _)
\* Index in SegmentOrder of the first declared segment at or after i (0: none).
FirstDeclared(schema, i) ==
  IF i > Len(SegmentOrder) THEN 0
  ELSE IF IsDefined(schema[SegmentOrder[i]]) THEN i
  ELSE FirstDeclared(schema, i + 1)

IndexOf(seg) == CHOOSE i \in 1..Len(SegmentOrder) : SegmentOrder[i] = seg

ReplaceKeepRaw(seg, old, data) == old
\* req.body = data; defineProperty(req, 'query' / 'params', {value: data});
\* Object.assign(req.headers, data)
Replace(seg, old, data) ==
  IF seg = "headers" THEN ObjectAssign(old, data) ELSE data

ResponseSchemaOrDefault(response, code) ==
  IF code \in DOMAIN response.map THEN response.map[code]
  ELSE IF code \in DOMAIN config.defaultResponses.map
  THEN config.defaultResponses.map[code] ELSE Undefined

ResponseSchemaFor200(response, code) ==
  IF 200 \in DOMAIN response.map THEN response.map[200] ELSE Undefined
\* schema.response[currentStatusCode]
ResponseSchemaFor(response, code) ==
  IF code \in DOMAIN response.map THEN response.map[code] ELSE Undefined

wrappedJsonFallThrough(response, code, body) ==
  LET zs == ResponseSchemaFor(response, code) IN
  IF IsDefined(zs) /\ ~safeParse(zs, body).success
  THEN [emit |-> TRUE, fail |-> TRUE, error |-> safeParse(zs, body).error]
  ELSE [emit |-> TRUE, fail |-> FALSE, error |-> Undefined]
\* The wrapped res.json: whether the body goes to originalJson, and whether
\* a ResponseValidationError is raised.
wrappedJson(response, code, body) ==
  LET zs == ResponseSchemaFor(response, code) IN
  IF IsDefined(zs) /\ ~safeParse(zs, body).success
  THEN [emit |-> FALSE, fail |-> TRUE, error |-> safeParse(zs, body).error]
  ELSE [emit |-> TRUE, fail |-> FALSE, error |-> Undefined]

\* res.status(code): the wrapped primitive remembers the code, the original
\* one sets it on the response.
ResStatus(code, r, m) ==
  [res |-> [r EXCEPT !.statusCode = code],
   mw |-> IF r.wrapped THEN [m EXCEPT !.currentStatusCode = code] ELSE m]

Frame == UNCHANGED <<config, routesMetadata, expressRouter, document, target, rawReq,
                     parked, lastCall, schemaNode, openApiSchema>>

\* A failure is handed to resolution: the per-route handler, else the global
\* handler, else next(error).
Resolve(error, r, m, ev) ==
  LET by == Resolver(Closure.routeErrorHandler, capturedGlobalErrorHandler(m)) IN
  /\ errors' = Append(errors, error)
  /\ resolutions' = Append(resolutions,
                           [by |-> by.kind, handler |-> by.handler, error |-> error,
                            configured |-> config.errorHandler])
  /\ res' = r
  /\ events' = ev
  /\ IF by.kind = "default"
     THEN /\ nextCalls' = Append(nextCalls, error)
          /\ pc' = "nextError"
          /\ mw' = m
     ELSE /\ nextCalls' = nextCalls
          /\ pc' = "errorHandler"
          /\ mw' = [m EXCEPT !.handler = by.handler, !.error = error]

interceptionInstalledOnEntry(response, remaining) == response.declared
\* if (schema.response) { res.status = ...; res.json = ... }: the block comes
\* after the four parse blocks, so it is reached with no declared segment
\* remaining (remaining = 0) only.
interceptionInstalled(response, remaining) == response.declared /\ remaining = 0

\* The middleware runs on from segment index i to its next await, or to the
\* end: response interception is armed and next() invokes the route handler.
RunFrom(i, rq, m, ev) ==
  LET j == FirstDeclared(Closure.schema, i) IN
  IF j > 0
  THEN LET seg == SegmentOrder[j] IN
       /\ pc' = seg
       /\ mw' = [m EXCEPT !.result =
                   safeParse(Closure.schema[seg], rq[ContainerOf(seg)])]
       /\ events' = Append(ev, [op |-> "parse", segment |-> seg])
       /\ req' = rq
       /\ res' = [res EXCEPT !.wrapped =
                    @ \/ interceptionInstalled(Closure.schema.response, j)]
       /\ UNCHANGED <<errors, nextCalls, resolutions, handlerCalls, stack>>
  ELSE /\ pc' = "handler"
       /\ res' = [res EXCEPT !.wrapped =
                    interceptionInstalled(Closure.schema.response, j)]
       /\ mw' = [m EXCEPT !.currentStatusCode = 200]
       /\ nextCalls' = Append(nextCalls, Undefined)
       /\ handlerCalls' = handlerCalls + 1
       /\ events' = Append(ev, [op |-> "next"])
       /\ req' = rq
       /\ UNCHANGED <<errors, resolutions, stack>>

originalJsonArgumentParsed(zs, body) ==
  IF IsDefined(zs) THEN safeParse(zs, body).data ELSE body
\* return originalJson(body): what the wrapped res.json hands to the original
\* primitive, zs being the schema the body was checked against (if any).
originalJsonArgument(zs, body) == body

\* res.json(body) on the response object as it is now (wrapped or not).
ResJson(body, r, m, ev) ==
  LET out == IF r.wrapped
             THEN wrappedJson(Closure.schema.response, m.currentStatusCode, body)
             ELSE [emit |-> TRUE, fail |-> FALSE, error |-> Undefined]
      passed == IF r.wrapped
                THEN originalJsonArgument(
                       ResponseSchemaFor(Closure.schema.response, m.currentStatusCode),
                       body)
                ELSE body
      r1 == IF out.emit
            THEN [r EXCEPT !.sent = Append(@, [status |-> r.statusCode, body |-> passed])]
            ELSE r
      ev1 == Append(ev, [op |-> "res.json", body |-> body,
                         emitted |-> out.emit, failed |-> out.fail])
  IN /\ UNCHANGED <<req, handlerCalls>>
     /\ IF out.fail
        THEN IF stack >= MaxStack
             THEN /\ pc' = "RangeError"
                  /\ res' = r /\ mw' = m /\ events' = ev
                  /\ UNCHANGED <<errors, nextCalls, resolutions, stack>>
             ELSE /\ stack' = stack + 1
                  /\ Resolve(ResponseValidationError(m.currentStatusCode, out.error, req, body),
                             r1, m,
                             Append(ev1, [op |-> "console.error",
                                          status |-> m.currentStatusCode]))
        ELSE /\ pc' = "done"
             /\ res' = r1 /\ mw' = m /\ events' = ev1
             /\ UNCHANGED <<errors, nextCalls, resolutions, stack>>

\* ----------------------------------------------------------------- actions
\* router.METHOD(path, {schema, errorHandler}, handler): registerRoute
RegisterRoute(instance, method, path, schema, handler, errorHandler, middlewares) ==
  /\ Len(expressRouter) < MaxRoutes
  /\ routesMetadata' = pushRouteMetadata(routesMetadata, method, path, schema)
  /\ expressRouter' = installRoute(expressRouter, instance, method, path, schema,
                                   handler, errorHandler, middlewares)
  /\ UNCHANGED <<config, document, target, pc, req, rawReq, res, mw,
                 errors, nextCalls, resolutions, events, handlerCalls, stack>>
  /\ UNCHANGED <<parked, lastCall, schemaNode, openApiSchema>>

\* setGlobalErrorHandler(handler)
SetGlobalErrorHandler(h) ==
  /\ config' = [config EXCEPT !.errorHandler = h]
  /\ UNCHANGED <<routesMetadata, expressRouter, document, target, pc, req, rawReq, res, mw,
                 errors, nextCalls, resolutions, events, handlerCalls, stack>>
  /\ UNCHANGED <<parked, lastCall, schemaNode, openApiSchema>>

\* setDefaultResponses(responses)
SetDefaultResponses(responses) ==
  /\ config' = [config EXCEPT !.defaultResponses = responses]
  /\ UNCHANGED <<routesMetadata, expressRouter, document, target, pc, req, rawReq, res, mw,
                 errors, nextCalls, resolutions, events, handlerCalls, stack>>
  /\ UNCHANGED <<parked, lastCall, schemaNode, openApiSchema>>

\* generateOpenAPISpec(config, basePath)
GenerateOpenAPISpec ==
  /\ document' = generateOpenAPISpec(routesMetadata, BasePath)
  /\ lastCall' = [routes |-> routesMetadata, config |-> config,
                   basePath |-> BasePath,
                   repeated |-> /\ IsDefined(lastCall)
                                /\ lastCall.routes = routesMetadata
                                /\ lastCall.config = config
                                /\ lastCall.basePath = BasePath]
  /\ UNCHANGED <<config, routesMetadata, expressRouter, target, pc, req, rawReq, res, mw,
                 errors, nextCalls, resolutions, events, handlerCalls, stack>>
  /\ UNCHANGED <<parked, schemaNode, openApiSchema>>

\* The raw value a request carries in the container of a segment: any raw
\* input where the route declares a schema for it; one representative value
\* where it does not (the middleware never reads that container).
RawFor(i, seg) ==
  IF IsDefined(expressRouter[i].validationMiddleware.schema[seg])
  THEN RawInputs ELSE {RawValid}

UploadsFor(i) ==
  IF expressRouter[i].validationMiddleware.schema.files.declared
  THEN Uploads ELSE {NoUpload}

\* The router dispatches a request to route i, after the upload middleware.
Arrive(i, body, query, params, headers, upload) ==
  /\ pc = "idle"
  /\ pc' = IF expressRouter[i].chain[1] = "validationMiddleware" THEN "enter"
           ELSE "middleware"
  /\ target' = i
  /\ req' = [body |-> body, query |-> query, params |-> params,
             headers |-> headers, file |-> upload.file, files |-> upload.files]
  /\ rawReq' = req'
  /\ UNCHANGED <<res, mw, errors, nextCalls, resolutions, events, handlerCalls, stack>>
  /\ UNCHANGED <<config, routesMetadata, expressRouter, document>>
  /\ UNCHANGED <<parked, lastCall, schemaNode, openApiSchema>>

\* router.post(path, options, ...handlersAndMiddlewares) on a typed router
Post(instance, path, options, handlersAndMiddlewares) ==
  RegisterRoute(instance, "post", path, options.schema,
                popHandler(handlersAndMiddlewares), options.errorHandler,
                restMiddlewares(handlersAndMiddlewares))

IsMiddlewareEvent(e) == e.op = "middleware"
\* Position in the route's chain of the middleware Express runs next.
Hop == Len(SelectSeq(events, IsMiddlewareEvent)) + 1

\* Express runs the next user middleware of the route; it calls next(). The
\* upload middleware leaves on the request the files it captured.
UserMiddleware ==
  /\ pc = "middleware"
  /\ LET name == Layer.chain[Hop] IN
     /\ events' = Append(events, [op |-> "middleware", name |-> name, body |-> req.body])
     /\ \E u \in (IF name = "upload" THEN UploadsFor(target) ELSE {NoUpload}) :
          /\ req' = IF name = "upload"
                    THEN [req EXCEPT !.file = u.file, !.files = u.files] ELSE req
          /\ rawReq' = req'
     /\ pc' = IF Layer.chain[Hop + 1] = "validationMiddleware" THEN "enter"
              ELSE "middleware"
  /\ UNCHANGED <<res, mw, errors, nextCalls, resolutions, handlerCalls, stack>>
  /\ UNCHANGED <<config, routesMetadata, expressRouter, document, target,
                 parked, lastCall, schemaNode, openApiSchema>>

\* The validation middleware is entered: the global handler is read, the
\* files are checked, and the middleware runs to its first await.
ValidationMiddleware ==
  /\ pc = "enter"
  /\ LET m0 == [mw EXCEPT !.globalErrorHandler = getGlobalErrorHandler]
         fc == Closure.schema.files
         missing == IF fc.declared THEN missingFiles(fc.fields, req, 1) ELSE <<>>
         ev == Append(events, [op |-> "enter", configured |-> config.errorHandler])
         ev0 == IF fc.declared
                THEN Append(ev, [op |-> "files-check", missing |-> missing])
                ELSE ev
     IN IF Len(missing) > 0
        THEN /\ Resolve(RequestValidationError("body", FilesZodError(missing), req),
                        res, m0, ev0)
             /\ UNCHANGED <<req, handlerCalls, stack>>
        ELSE RunFrom(1, req, m0, ev0)
  /\ Frame

\* The middleware resumes after the await of one segment's safeParseAsync.
ValidateSegment(seg) ==
  /\ pc = seg
  /\ IF validationFailed(mw.result)
     THEN /\ Resolve(RequestValidationError(seg, mw.result.error, req),
                     res, mw, events)
          /\ UNCHANGED <<req, handlerCalls, stack>>
     ELSE RunFrom(IndexOf(seg) + 1,
                  [req EXCEPT ![ContainerOf(seg)] = Replace(seg, @, mw.result.data)],
                  mw,
                  Append(events, [op |-> "replace", segment |-> seg]))
  /\ Frame

\* The route handler calls res.status(code).
HandlerStatus(code) ==
  /\ pc = "handler"
  /\ mw.statusCalls < MaxStatusCalls
  /\ LET st == ResStatus(code, res, mw) IN
     /\ res' = st.res
     /\ mw' = [st.mw EXCEPT !.statusCalls = @ + 1]
  /\ events' = Append(events, [op |-> "res.status", code |-> code])
  /\ UNCHANGED <<pc, req, errors, nextCalls, resolutions, handlerCalls, stack>>
  /\ Frame

\* The route handler calls res.json(body).
HandlerJson(body) ==
  /\ pc = "handler"
  /\ ResJson(body, res, mw, events)
  /\ Frame

\* The invoked error handler emits res.status(code).json(body).
ErrorHandler ==
  /\ pc = "errorHandler"
  /\ LET out == HandlerResponse(mw.handler, mw.error)
         st == ResStatus(out.code, res, mw)
     IN ResJson(out.body, st.res, st.mw,
                Append(events, [op |-> "res.status", code |-> out.code]))
  /\ Frame

\* ------------------------------------------------------------ specification
RouteErrorHandlers == {Undefined, RouteErrorHandler}

RequestIdle ==
  /\ target = 0
  /\ pc = "idle"
  /\ req = Undefined
  /\ rawReq = Undefined
  /\ res = [statusCode |-> 200, wrapped |-> FALSE, sent |-> <<>>]
  /\ mw = [globalErrorHandler |-> Undefined, currentStatusCode |-> 200,
           result |-> Undefined, handler |-> Undefined, error |-> Undefined,
           statusCalls |-> 0]
  /\ errors = <<>>
  /\ nextCalls = <<>>
  /\ resolutions = <<>>
  /\ events = <<>>
  /\ handlerCalls = 0
  /\ stack = 0

\* No second request, no document generated, no schema translated yet.
Quiet ==
  /\ parked = Undefined
  /\ lastCall = Undefined
  /\ schemaNode = Undefined
  /\ openApiSchema = Undefined

\* One route has been declared with router.post.
Init ==
  /\ config = [errorHandler |-> Undefined, defaultResponses |-> NoResponse]
  /\ \E schema \in RouteSchemas, eh \in RouteErrorHandlers :
       /\ routesMetadata = pushRouteMetadata(<<>>, "post", RoutePath, schema)
       /\ expressRouter = installRoute(<<>>, 1, "post", RoutePath, schema, "handler", eh, <<>>)
  /\ document = Undefined
  /\ RequestIdle
  /\ Quiet

Dispatch ==
  \E i \in 1..Len(expressRouter) :
    \E b \in RawFor(i, "body"), q \in RawFor(i, "querystring"),
       p \in RawFor(i, "params"), h \in RawFor(i, "headers"),
       u \in UploadsFor(i) : Arrive(i, b, q, p, h, u)

Next ==
  \/ \E h \in GlobalHandlers : SetGlobalErrorHandler(h)
  \/ Dispatch
  \/ ValidationMiddleware
  \/ \E seg \in SegmentNames : ValidateSegment(seg)
  \/ \E code \in HandlerStatusCodes : HandlerStatus(code)
  \/ \E body \in HandlerBodies : HandlerJson(body)
  \/ ErrorHandler

Spec == Init /\ [][Next]_vars

\* The routes declared in SpecDoc: a body schema, with or without a response
\* schema for 200, a per-route error handler; visible or hidden.
DocRouteSchemas ==
  {RouteSchema(NoFiles, {"body"}, r, h) :
     r \in {NoResponse, ResponseMap([c \in {200} |-> SuccessSchema])},
     h \in BOOLEAN}

\* A router has been created; no route is declared yet.
InitDoc ==
  /\ config = [errorHandler |-> Undefined, defaultResponses |-> NoResponse]
  /\ routesMetadata = <<>>
  /\ expressRouter = <<>>
  /\ document = Undefined
  /\ RequestIdle
  /\ Quiet

NextDoc ==
  \/ \E method \in Methods, schema \in DocRouteSchemas :
       RegisterRoute(1, method, RoutePath, schema, "handler", RouteErrorHandler, <<>>)
  \/ GenerateOpenAPISpec
  \/ Dispatch
  \/ ValidationMiddleware
  \/ \E seg \in SegmentNames : ValidateSegment(seg)
  \/ \E code \in HandlerStatusCodes : HandlerStatus(code)
  \/ \E body \in HandlerBodies : HandlerJson(body)
  \/ ErrorHandler

SpecDoc == InitDoc /\ [][NextDoc]_vars

\* -------------------------------------------- specification SpecConc
\* Two requests to the same route are in flight; the event loop runs one of
\* them at a time and may turn to the other whenever the running one is
\* suspended (at an await of the middleware or inside its asynchronous
\* handler).
\* What belongs to one request: its request and response objects and the
\* locals of its invocations.
RequestState ==
  [target |-> target, pc |-> pc, req |-> req, rawReq |-> rawReq, res |-> res,
   mw |-> mw, errors |-> errors, nextCalls |-> nextCalls,
   resolutions |-> resolutions, events |-> events,
   handlerCalls |-> handlerCalls, stack |-> stack]

IdleRequestState ==
  [target |-> 0, pc |-> "idle", req |-> Undefined, rawReq |-> Undefined,
   res |-> [statusCode |-> 200, wrapped |-> FALSE, sent |-> <<>>],
   mw |-> [globalErrorHandler |-> Undefined, currentStatusCode |-> 200,
           result |-> Undefined, handler |-> Undefined, error |-> Undefined,
           statusCalls |-> 0],
   errors |-> <<>>, nextCalls |-> <<>>, resolutions |-> <<>>, events |-> <<>>,
   handlerCalls |-> 0, stack |-> 0]

sharedStatusLocals(suspended, resumed) ==
  [resumed EXCEPT !.currentStatusCode = suspended.currentStatusCode]
\* The locals an invocation finds when it resumes: its own. They are
\* declared inside the function that runs once per request.
invocationLocals(suspended, resumed) == resumed

\* The event loop turns from the running request to the other one.
Switch ==
  /\ IsDefined(parked)
  /\ parked' = RequestState
  /\ target' = parked.target
  /\ pc' = parked.pc
  /\ req' = parked.req
  /\ rawReq' = parked.rawReq
  /\ res' = parked.res
  /\ mw' = invocationLocals(mw, parked.mw)
  /\ errors' = parked.errors
  /\ nextCalls' = parked.nextCalls
  /\ resolutions' = parked.resolutions
  /\ events' = parked.events
  /\ handlerCalls' = parked.handlerCalls
  /\ stack' = parked.stack
  /\ UNCHANGED <<config, routesMetadata, expressRouter, document,
                 lastCall, schemaNode, openApiSchema>>

\* The route both requests go to: a body schema, a response schema for 200.
ConcRouteSchema ==
  RouteSchemaOf(NoFiles, SegmentSchema, Undefined, Undefined, Undefined,
                ResponseMap([c \in {200} |-> SuccessSchema]), FALSE)

InitConc ==
  /\ config = [errorHandler |-> Undefined, defaultResponses |-> NoResponse]
  /\ routesMetadata = pushRouteMetadata(<<>>, "post", RoutePath, ConcRouteSchema)
  /\ expressRouter = installRoute(<<>>, 1, "post", RoutePath, ConcRouteSchema,
                                  "handler", RouteErrorHandler, <<>>)
  /\ document = Undefined
  /\ RequestIdle
  /\ parked = IdleRequestState
  /\ lastCall = Undefined
  /\ schemaNode = Undefined
  /\ openApiSchema = Undefined

NextConc ==
  \/ Dispatch
  \/ ValidationMiddleware
  \/ \E seg \in SegmentNames : ValidateSegment(seg)
  \/ \E code \in HandlerStatusCodes : HandlerStatus(code)
  \/ \E body \in HandlerBodies : HandlerJson(body)
  \/ ErrorHandler
  \/ Switch

SpecConc == InitConc /\ [][NextConc]_vars

\* ---------------------------------------------- specification SpecMw
\* Routes are declared with router.post(path, options, m1, ..., mk, handler);
\* one request is dispatched to one of them.
\* The argument lists after the options: user middlewares, then the handler.
HandlersAndMiddlewares ==
  {<<"handler">>, <<"upload", "handler">>,
   <<"auth", "upload", "handler">>, <<"upload", "auth", "handler">>}

MwRouteSchemas ==
  {RouteSchemaOf(f, SegmentSchema, Undefined, Undefined, Undefined, NoResponse, FALSE) :
     f \in FileConfigs}

DispatchMw ==
  \E i \in 1..Len(expressRouter) :
    \E b \in RawFor(i, "body") : Arrive(i, b, RawValid, RawValid, RawValid, NoUpload)

NextMw ==
  \/ \E schema \in MwRouteSchemas, args \in HandlersAndMiddlewares :
       Post(1, RoutePath, [schema |-> schema, errorHandler |-> RouteErrorHandler], args)
  \/ DispatchMw
  \/ UserMiddleware
  \/ ValidationMiddleware
  \/ \E seg \in SegmentNames : ValidateSegment(seg)
  \/ \E body \in HandlerBodies : HandlerJson(body)
  \/ ErrorHandler

SpecMw == InitDoc /\ [][NextMw]_vars

\* -------------------------------------------- specification SpecFiles
\* One route declares two file fields and a body schema; one request arrives
\* with what the upload middleware captured.
\* Largest number of files the upload middleware captures for a field.
MaxFileCount == 2

\* {required} or {required, maxCount} for one field name.
FileFieldOptions(fieldName) ==
  {[fieldName |-> fieldName, required |-> r] : r \in BOOLEAN}
    \cup {[fieldName |-> fieldName, required |-> r, maxCount |-> n] :
            r \in BOOLEAN, n \in 0..(MaxFileCount - 1)}

\* schema.files = {avatar: {...}, images: {...}}
TwoFileFields ==
  {[declared |-> TRUE, fields |-> <<a, i>>] :
     a \in FileFieldOptions("avatar"), i \in FileFieldOptions("images")}

\* upload.single(fieldName): req.file
SingleUploadOf(fieldName) == [file |-> [fieldname |-> fieldName], files |-> Undefined]

\* upload.fields([...]): req.files keyed by field name, one array of files
\* per field that received any.
KeyedUpload(avatar, images) ==
  [file |-> Undefined,
   files |-> [k \in (IF avatar > 0 THEN {"avatar"} ELSE {})
                     \cup (IF images > 0 THEN {"images"} ELSE {}) |->
                IF k = "avatar" THEN avatar ELSE images]]

\* upload.array(fieldName, n): req.files is the array of the files itself;
\* an array has no property named after a field.
ArrayUpload(fieldName, n) ==
  [file |-> Undefined,
   files |-> [array |-> [fieldname |-> fieldName, length |-> n]]]

FileUploads ==
  {NoUpload, SingleUploadOf("avatar"), SingleUploadOf("images")}
    \cup {KeyedUpload(a, i) : a \in 0..MaxFileCount, i \in 0..MaxFileCount}
    \cup {ArrayUpload("images", n) : n \in 1..MaxFileCount}

InitFiles ==
  /\ config = [errorHandler |-> Undefined, defaultResponses |-> NoResponse]
  /\ \E files \in TwoFileFields :
       LET schema == RouteSchemaOf(files, SegmentSchema, Undefined, Undefined, Undefined,
                                   NoResponse, FALSE)
       IN /\ routesMetadata = pushRouteMetadata(<<>>, "post", RoutePath, schema)
          /\ expressRouter = installRoute(<<>>, 1, "post", RoutePath, schema,
                                          "handler", RouteErrorHandler, <<>>)
  /\ document = Undefined
  /\ RequestIdle
  /\ Quiet

DispatchFiles ==
  \E b \in RawInputs, u \in FileUploads : Arrive(1, b, RawValid, RawValid, RawValid, u)

NextFiles ==
  \/ DispatchFiles
  \/ ValidationMiddleware
  \/ \E seg \in SegmentNames : ValidateSegment(seg)
  \/ \E body \in HandlerBodies : HandlerJson(body)
  \/ ErrorHandler

SpecFiles == InitFiles /\ [][NextFiles]_vars

\* ---------------------------------------------- specification SpecGen
\* Routes are declared on two typed routers, the global default responses
\* are set, and the document is generated, in any order.
RouterInstances == {1, 2}

\* params: z.object({id: z.string()})
IdParams == ZObjectOf(<< <<"id", ZString>> >>)
\* params: z.object({id: z.string().optional()})
OptionalIdParams == ZObjectOf(<< <<"id", ZOptional(ZString)>> >>)
\* querystring: z.object({page: z.coerce.number(), q: z.string().optional()})
PageQuery == ZObjectOf(<< <<"page", ZCoerceNumber>>, <<"q", ZOptional(ZString)>> >>)
\* headers: z.object({'x-trace': z.string().nullish(), 'x-key': z.string()})
TraceHeaders == ZObjectOf(<< <<"x-trace", ZNullish(ZString)>>, <<"x-key", ZString>> >>)
\* body: z.object({name: z.string(), bio: z.string().optional()})
ProfileBody == ZObjectOf(<< <<"name", ZString>>, <<"bio", ZOptional(ZString)>> >>)

\* querystring: z.object({page: ..., q: ...}).refine(...)
RefinedPageQuery == ZEffects(PageQuery)
\* headers: z.object({'x-trace': ..., 'x-key': ...}).optional()
OptionalTraceHeaders == ZOptional(TraceHeaders)

GenRouteSchemas ==
  {RouteSchemaOf(NoFiles, Undefined, RefinedPageQuery, IdParams, OptionalTraceHeaders,
                 NoResponse, FALSE),
   RouteSchemaOf(NoFiles, Undefined, PageQuery, OptionalIdParams, TraceHeaders,
                 ResponseMap([c \in {200} |-> SuccessSchema]), FALSE),
   RouteSchemaOf(NoFiles, ProfileBody, Undefined, IdParams, Undefined,
                 ResponseMap([c \in {200, 500} |->
                                IF c = 200 THEN SuccessSchema ELSE ErrorSchema]), TRUE),
   RouteSchemaOf(AvatarFiles, ProfileBody, Undefined, Undefined, Undefined,
                 ResponseMap([c \in {500} |-> ErrorSchema]), FALSE)}

\* setDefaultResponses({500: ...}) and setDefaultResponses({400: ..., 500: ...})
DefaultResponseMaps ==
  {ResponseMap([c \in {500} |-> MessageSchema]),
   ResponseMap([c \in {400, 500} |-> MessageSchema])}

NextGen ==
  \/ \E instance \in RouterInstances, method \in Methods, schema \in GenRouteSchemas :
       RegisterRoute(instance, method, RoutePath, schema, "handler", Undefined, <<>>)
  \/ \E responses \in DefaultResponseMaps : SetDefaultResponses(responses)
  \/ GenerateOpenAPISpec

SpecGen == InitDoc /\ [][NextGen]_vars

\* ----------------------------------------- specification SpecDefaults
\* Requests are served by a route with or without a response map while the
\* global default responses are set and the document is generated.
\* setDefaultResponses({201: ...}) and setDefaultResponses({200: ..., 201: ...})
RuntimeDefaultResponseMaps ==
  {ResponseMap([c \in {201} |-> MessageSchema]),
   ResponseMap([c \in {200, 201} |-> MessageSchema])}

InitDefaults ==
  /\ config = [errorHandler |-> Undefined, defaultResponses |-> NoResponse]
  /\ \E response \in {NoResponse, ResponseMap([c \in {200} |-> SuccessSchema])} :
       LET schema == RouteSchemaOf(NoFiles, SegmentSchema, Undefined, Undefined,
                                   Undefined, response, FALSE) IN
       /\ routesMetadata = pushRouteMetadata(<<>>, "post", RoutePath, schema)
       /\ expressRouter = installRoute(<<>>, 1, "post", RoutePath, schema,
                                       "handler", RouteErrorHandler, <<>>)
  /\ document = Undefined
  /\ RequestIdle
  /\ Quiet

NextDefaults ==
  \/ \E responses \in RuntimeDefaultResponseMaps : SetDefaultResponses(responses)
  \/ GenerateOpenAPISpec
  \/ Dispatch
  \/ ValidationMiddleware
  \/ \E seg \in SegmentNames : ValidateSegment(seg)
  \/ \E code \in HandlerStatusCodes : HandlerStatus(code)
  \/ \E body \in HandlerBodies : HandlerJson(body)
  \/ ErrorHandler

SpecDefaults == InitDefaults /\ [][NextDefaults]_vars

\* --------------------------------------------- specification SpecEmit
\* The handler of a route with or without response schemas emits bodies,
\* among them one that its schema accepts and parses to something else.
\* {success: true, note: 'y'}: accepted by SuccessSchema, which strips note
ExtraBody == [success |-> Bool("true"), note |-> Str("y")]
EmitBodies == {OkBody, ExtraBody, BadBody}

InitEmit ==
  /\ config = [errorHandler |-> Undefined, defaultResponses |-> NoResponse]
  /\ \E response \in ResponseMaps, eh \in RouteErrorHandlers :
       LET schema == RouteSchemaOf(NoFiles, SegmentSchema, Undefined, Undefined,
                                   Undefined, response, FALSE) IN
       /\ routesMetadata = pushRouteMetadata(<<>>, "post", RoutePath, schema)
       /\ expressRouter = installRoute(<<>>, 1, "post", RoutePath, schema,
                                       "handler", eh, <<>>)
  /\ document = Undefined
  /\ RequestIdle
  /\ Quiet

NextEmit ==
  \/ Dispatch
  \/ ValidationMiddleware
  \/ \E seg \in SegmentNames : ValidateSegment(seg)
  \/ \E code \in HandlerStatusCodes : HandlerStatus(code)
  \/ \E body \in EmitBodies : HandlerJson(body)
  \/ ErrorHandler

SpecEmit == InitEmit /\ [][NextEmit]_vars

\* ---------------------------------------- specification SpecResponses
\* Routes whose response map is absent, empty ({}) or not empty are declared
\* and documented while the global default responses are unset, set to {}
\* or set to a map that is not empty.
ResponseMapChoices ==
  {NoResponse, ResponseMap(EmptyMap), ResponseMap([c \in {200} |-> SuccessSchema])}

DefaultResponseChoices ==
  {ResponseMap(EmptyMap), ResponseMap([c \in {500} |-> MessageSchema])}

NextResponses ==
  \/ \E method \in Methods, response \in ResponseMapChoices :
       RegisterRoute(1, method, RoutePath,
                     RouteSchemaOf(NoFiles, Undefined, Undefined, Undefined,
                                   Undefined, response, FALSE),
                     "handler", Undefined, <<>>)
  \/ \E responses \in DefaultResponseChoices : SetDefaultResponses(responses)
  \/ GenerateOpenAPISpec

SpecResponses == InitDoc /\ [][NextResponses]_vars

\* -------------------------------------------- specification SpecPaths
\* Routes with different path templates are declared and documented.
\* '/u/:id', '/u/:id/p/:n', '/f/:a-:b', '/d/:n.js', '/h'
RoutePaths ==
  {RoutePath,
   <<"/", "u", "/", ":", "i", "d", "/", "p", "/", ":", "n">>,
   <<"/", "f", "/", ":", "a", "-", ":", "b">>,
   <<"/", "d", "/", ":", "n", ".", "j", "s">>,
   <<"/", "h">>}

NextPaths ==
  \/ \E method \in Methods, path \in RoutePaths :
       RegisterRoute(1, method, path,
                     RouteSchemaOf(NoFiles, Undefined, Undefined, Undefined,
                                   Undefined, NoResponse, FALSE),
                     "handler", Undefined, <<>>)
  \/ GenerateOpenAPISpec

SpecPaths == InitDoc /\ [][NextPaths]_vars

\* ---------------------------------------- specification SpecTranslate
\* A schema is built from a leaf or composite schema by stacking wrappers on
\* it, and translated.
MaxWrap == 3

WrapperKinds ==
  {"optional", "nullable", "nullish", "default", "effects", "branded",
   "readonly", "catch", "pipeline"}

WrapperTypeNames ==
  {"ZodOptional", "ZodNullable", "ZodDefault", "ZodEffects", "ZodBranded",
   "ZodReadonly", "ZodCatch", "ZodPipeline"}

\* schema.optional(), .nullable(), .nullish(), .default(0), .refine(...),
\* .brand(), .readonly(), .catch(0), z.string().pipe(schema)
wrap(kind, zschema) ==
  CASE kind = "optional" -> ZOptional(zschema)
    [] kind = "nullable" -> ZNullable(zschema)
    [] kind = "nullish" -> ZNullish(zschema)
    [] kind = "default" -> ZDefault(zschema, Num(0))
    [] kind = "effects" -> ZEffects(zschema)
    [] kind = "branded" -> ZBranded(zschema)
    [] kind = "readonly" -> ZReadonly(zschema)
    [] kind = "catch" -> ZCatch(zschema)
    [] kind = "pipeline" -> ZPipeline(ZString, zschema)

\* The schema a wrapper's branch of the translator recurses into.
wrappedSchema(zschema) ==
  CASE zschema.typeName = "ZodEffects" -> zschema.schema
    [] zschema.typeName = "ZodBranded" -> zschema.type
    [] zschema.typeName = "ZodPipeline" -> zschema.out
    [] OTHER -> zschema.innerType

RECURSIVE wrapperLayers(_)
wrapperLayers(zschema) ==
  IF HasDef(zschema) /\ zschema.typeName \in WrapperTypeNames
  THEN 1 + wrapperLayers(wrappedSchema(zschema)) ELSE 0

\* z.string().email().min(3).describe('contact')
ContactString ==
  Describe(ZStringWith(<<[kind |-> "email"], [kind |-> "min", value |-> 3]>>),
           "contact")
\* z.number().int().max(9)
SmallInt ==
  ZNumberWith(<<[kind |-> "int"], [kind |-> "max", value |-> 9, inclusive |-> TRUE]>>)
\* z.object({a: z.string(), b: z.string().optional()})
RequiredAndOptional ==
  ZObjectOf(<< <<"a", ZString>>, <<"b", ZOptional(ZString)>> >>)
\* z.object({a: z.string().optional(), b: z.number().nullish()})
NothingRequired ==
  ZObjectOf(<< <<"a", ZOptional(ZString)>>, <<"b", ZNullish(ZNumber)>> >>)
\* z.object({d: z.string().nullable(), c: z.number().default(0),
\*           b: z.any(), a: z.boolean()})
MixedFields ==
  ZObjectOf(<< <<"d", ZNullable(ZString)>>, <<"c", ZDefault(ZNumber, Num(0))>>,
               <<"b", ZAny>>, <<"a", ZBoolean>> >>)

\* A value without _def / def (a plain object), with and without a
\* description property; a definition whose kind tag the translator does not
\* know, and one without kind tag.
PlainValue == [value |-> "{}"]
FutureKind == [typeName |-> "ZodFuture"]
UntaggedDef == [typeName |-> ""]

UnwrappedSchemas ==
  {ZString, ContactString, SmallInt, ZArray(ZNullable(ZString)),
   ZEnum(<<"x", "y">>), ZDate, ZAny, ZLazy,
   RequiredAndOptional, NothingRequired, MixedFields,
   Undefined, PlainValue, Describe(PlainValue, "note"),
   FutureKind, Describe(FutureKind, "note"), UntaggedDef,
   Category, ZLazyOf("Category"), Describe(ZLazyOf("Category"), "tree")}

InitTranslate ==
  /\ config = [errorHandler |-> Undefined, defaultResponses |-> NoResponse]
  /\ routesMetadata = <<>>
  /\ expressRouter = <<>>
  /\ document = Undefined
  /\ RequestIdle
  /\ parked = Undefined
  /\ lastCall = Undefined
  /\ schemaNode \in UnwrappedSchemas
  /\ openApiSchema = Undefined

\* One more wrapper is put around the schema.
Wrap(kind) ==
  /\ IsDefined(schemaNode)
  /\ wrapperLayers(wrap(kind, schemaNode)) <= MaxWrap
  /\ schemaNode' = wrap(kind, schemaNode)
  /\ openApiSchema' = Undefined
  /\ lastCall' = Undefined
  /\ UNCHANGED <<config, routesMetadata, expressRouter, document, target, pc,
                 req, rawReq, res, mw, errors, nextCalls, resolutions, events,
                 handlerCalls, stack, parked>>

\* zodSchemaToOpenAPISchema(schema)
Translate ==
  /\ openApiSchema' = zodSchemaToOpenAPISchema(schemaNode)
  /\ lastCall' = [schema |-> schemaNode]
  /\ UNCHANGED <<config, routesMetadata, expressRouter, document, target, pc,
                 req, rawReq, res, mw, errors, nextCalls, resolutions, events,
                 handlerCalls, stack, parked, schemaNode>>

NextTranslate ==
  \/ \E kind \in WrapperKinds : Wrap(kind)
  \/ Translate

SpecTranslate == InitTranslate /\ [][NextTranslate]_vars

\* =================================================================== claims
\* Vocabulary of the claims, computed from the dispatched request and the
\* declared schema alone.
ClaimedOrder == <<"body", "querystring", "params", "headers">>

Declared(seg) == IsDefined(Closure.schema[seg])

AllDeclared == \A seg \in SegmentNames : Declared(seg)

RawFails(seg) ==
  /\ Declared(seg)
  /\ ~safeParse(Closure.schema[seg], rawReq[ContainerOf(seg)]).success

ParsedOf(seg) == safeParse(Closure.schema[seg], rawReq[ContainerOf(seg)]).data

FilesFail ==
  /\ Closure.schema.files.declared
  /\ missingFiles(Closure.schema.files.fields, rawReq, 1) # <<>>

AnyFails == FilesFail \/ \E seg \in SegmentNames : RawFails(seg)

\* Position of the first failing check: 0 the files-check, 1..4 a segment of
\* ClaimedOrder, 5 none.
FirstFailing ==
  IF FilesFail THEN 0
  ELSE IF \E i \in 1..4 : RawFails(ClaimedOrder[i])
  THEN CHOOSE i \in 1..4 :
         /\ RawFails(ClaimedOrder[i])
         /\ \A j \in 1..(i - 1) : ~RawFails(ClaimedOrder[j])
  ELSE 5

RECURSIVE ExpectedFrom(_)
ExpectedFrom(i) ==
  IF i > 4 THEN <<>>
  ELSE LET seg == ClaimedOrder[i] IN
       IF ~Declared(seg) THEN ExpectedFrom(i + 1)
       ELSE IF RawFails(seg) THEN << <<"parse", seg>> >>
       ELSE << <<"parse", seg>>, <<"replace", seg>> >> \o ExpectedFrom(i + 1)

ExpectedSteps ==
  (IF Closure.schema.files.declared THEN << <<"files-check", "files">> >> ELSE <<>>)
  \o (IF FilesFail THEN <<>> ELSE ExpectedFrom(1))

IsStep(e) == e.op \in {"files-check", "parse", "replace"}
StepTag(e) == IF e.op = "files-check" THEN <<"files-check", "files">>
              ELSE <<e.op, e.segment>>
StepEvents == SelectSeq(events, IsStep)
Steps == [i \in 1..Len(StepEvents) |-> StepTag(StepEvents[i])]

IsPrefix(a, b) == Len(a) <= Len(b) /\ SubSeq(b, 1, Len(a)) = a

WasReplaced(seg) == \E i \in 1..Len(Steps) : Steps[i] = <<"replace", seg>>

ValidationOver == pc \notin ({"idle", "enter"} \cup SegmentNames)

IsRequestError(e) == e.name = "RequestValidationError"
IsResponseError(e) == e.name = "ResponseValidationError"
RequestErrors == SelectSeq(errors, IsRequestError)
ResponseErrors == SelectSeq(errors, IsResponseError)

IsPlainNext(a) == a = Undefined
PlainNextCalls == SelectSeq(nextCalls, IsPlainNext)

\* C1: the checks of one request run in the order files-check, body,
\* querystring, params, headers, each with its replacement done before the
\* next is parsed; at the first failing check nothing later is parsed or
\* replaced and exactly one validation error, tagged with that check, exists.
C1_OrderedShortCircuit ==
  pc # "idle" =>
    /\ IsPrefix(Steps, ExpectedSteps)
    /\ ValidationOver => Steps = ExpectedSteps
    /\ Len(RequestErrors) <= 1
    /\ (ValidationOver /\ FirstFailing = 0) =>
         /\ Len(RequestErrors) = 1
         /\ RequestErrors[1].segment = "body"
         /\ RequestErrors[1].validationError.path = <<"files">>
    /\ (ValidationOver /\ FirstFailing \in 1..4) =>
         /\ Len(RequestErrors) = 1
         /\ RequestErrors[1].segment = ClaimedOrder[FirstFailing]
         /\ RequestErrors[1].validationError.path = <<>>
    /\ \A i \in 1..4 :
         FirstFailing <= i =>
           req[ContainerOf(ClaimedOrder[i])] = rawReq[ContainerOf(ClaimedOrder[i])]

\* Body and params are both invalid and only the 'body' error exists.
C1_Witness ==
  /\ ValidationOver
  /\ AllDeclared
  /\ RawFails("body") /\ RawFails("params") /\ ~FilesFail
  /\ Len(errors) = 1
  /\ errors[1].segment = "body"

\* C2: when any declared check fails the middleware never calls next()
\* without an error and the route handler is not invoked; when every declared
\* check passes next() is called exactly once and the handler runs once.
C2_HandlerReachedIffValid ==
  pc # "idle" =>
    /\ Len(PlainNextCalls) <= 1
    /\ handlerCalls = Len(PlainNextCalls)
    /\ AnyFails => (Len(PlainNextCalls) = 0 /\ handlerCalls = 0)
    /\ (ValidationOver /\ ~AnyFails) => (Len(PlainNextCalls) = 1 /\ handlerCalls = 1)

\* A request whose body fails has been resolved without the handler running.
C2_Witness ==
  /\ ValidationOver
  /\ RawFails("body") /\ ~FilesFail
  /\ Len(errors) = 1
  /\ handlerCalls = 0

\* C3 as stated: after a declared segment passes, its container equals
\* exactly the value the parse returned, for all four segments.
C3_ContainerIsParsedValue ==
  pc # "idle" =>
    \A seg \in SegmentNames :
      WasReplaced(seg) => req[ContainerOf(seg)] = ParsedOf(seg)

\* C3 amended: body, query and params equal exactly the parsed value; the
\* headers container holds the parsed value for every key the parse returned
\* and keeps the raw value of every other header.
C3_ReplacedOrMerged ==
  pc # "idle" =>
    /\ \A seg \in {"body", "querystring", "params"} :
         WasReplaced(seg) => req[ContainerOf(seg)] = ParsedOf(seg)
    /\ WasReplaced("headers") =>
         /\ DOMAIN req.headers = (DOMAIN rawReq.headers) \cup (DOMAIN ParsedOf("headers"))
         /\ \A k \in DOMAIN ParsedOf("headers") :
              req.headers[k] = ParsedOf("headers")[k]
         /\ \A k \in (DOMAIN rawReq.headers) \ (DOMAIN ParsedOf("headers")) :
              req.headers[k] = rawReq.headers[k]

\* The handler runs on a request whose four declared segments all passed.
C3_Witness ==
  /\ pc = "handler"
  /\ AllDeclared
  /\ \A seg \in SegmentNames : WasReplaced(seg)

\* C4: each validation failure invokes exactly one resolver: the per-route
\* handler if the route has one, otherwise the global handler in effect for
\* the request if there is one, otherwise the default path next(error).
C4_ResolverPrecedence ==
  /\ Len(resolutions) = Len(errors)
  /\ \A i \in 1..Len(resolutions) :
       LET r == resolutions[i] IN
       /\ r.error = errors[i]
       /\ IsDefined(Closure.routeErrorHandler) =>
            (r.by = "route" /\ r.handler = Closure.routeErrorHandler)
       /\ (~IsDefined(Closure.routeErrorHandler) /\ IsDefined(mw.globalErrorHandler)) =>
            (r.by = "global" /\ r.handler = mw.globalErrorHandler)
       /\ (~IsDefined(Closure.routeErrorHandler) /\ ~IsDefined(mw.globalErrorHandler)) =>
            r.by = "default"
  /\ Len(nextCalls) - Len(PlainNextCalls)
       = Cardinality({i \in 1..Len(resolutions) : resolutions[i].by = "default"})

\* A failure of a route with a per-route handler is resolved by it although a
\* global handler is set.
C4_Witness ==
  /\ Len(resolutions) = 1
  /\ resolutions[1].by = "route"
  /\ IsDefined(mw.globalErrorHandler)
  /\ IsDefined(config.errorHandler)

\* C5: with no per-route and no global handler the pipeline itself emits the
\* default handler's response: 400 with the segment's message for a request
\* failure, 500 with the generic message for a response failure.
C5_DefaultHandlerResponds ==
  \A i \in 1..Len(resolutions) :
    resolutions[i].by = "default" =>
      /\ Len(res.sent) = 1
      /\ res.sent[1].status = defaultErrorHandler(resolutions[i].error).code
      /\ res.sent[1].body.message = defaultErrorHandler(resolutions[i].error).body.message

RECURSIVE RememberedStatus(_)
\* The status most recently set through res.status up to event i since the
\* interception was armed (200 if none).
RememberedStatus(i) ==
  IF i = 0 THEN 200
  ELSE IF events[i].op = "res.status" THEN events[i].code
  ELSE IF events[i].op = "next" THEN 200
  ELSE RememberedStatus(i - 1)

IsJsonCall(i) == events[i].op = "res.json"
JsonCalls == {i \in 1..Len(events) : IsJsonCall(i)}
DeclaredResponses == Closure.schema.response.map

\* The body of res.json call i does not conform to the schema registered for
\* the status remembered at the call.
ShouldFail(i) ==
  LET s == RememberedStatus(i - 1) IN
  /\ s \in DOMAIN DeclaredResponses
  /\ ~safeParse(DeclaredResponses[s], events[i].body).success

IsEmittedCall(i) == IsJsonCall(i) /\ events[i].emitted
IsFailedCall(i) == IsJsonCall(i) /\ events[i].failed
EmittedCalls == SelectSeq([i \in 1..Len(events) |-> i], IsEmittedCall)
FailedCalls == SelectSeq([i \in 1..Len(events) |-> i], IsFailedCall)

\* C6: with response schemas declared, every body passed to res.json is
\* checked against the schema of the status most recently set through
\* res.status (200 if never set); with no schema for that status the body is
\* forwarded to the original emit primitive unmodified and no error arises.
C6_CheckedAgainstRememberedStatus ==
  res.wrapped =>
    /\ \A i \in JsonCalls :
         /\ events[i].failed = ShouldFail(i)
         /\ events[i].emitted = ~ShouldFail(i)
    /\ res.sent = [k \in 1..Len(EmittedCalls) |->
                     [status |-> RememberedStatus(EmittedCalls[k] - 1),
                      body |-> events[EmittedCalls[k]].body]]
    /\ Len(errors) = Len(FailedCalls)

\* Only 200 is declared; the handler emitted {foo: 1} with status 201.
C6_Witness ==
  /\ res.wrapped
  /\ DOMAIN DeclaredResponses = {200}
  /\ res.sent = <<[status |-> 201, body |-> FooBody]>>
  /\ errors = <<>>
  /\ pc = "done"

\* C7: a body failing the schema of its status never reaches the original
\* emit primitive; a ResponseValidationError with the status, the detail, the
\* request, the response and the body is handed to resolution; the original
\* emit primitive is invoked at most once.
C7_FailingBodyNotEmitted ==
  res.wrapped =>
    /\ \A i \in JsonCalls : events[i].failed => ~events[i].emitted
    /\ \A k \in 1..Len(res.sent) :
         res.sent[k].status \in DOMAIN DeclaredResponses =>
           safeParse(DeclaredResponses[res.sent[k].status], res.sent[k].body).success
    /\ Len(ResponseErrors) = Len(FailedCalls)
    /\ Len(resolutions) = Len(FailedCalls)
    /\ \A k \in 1..Len(FailedCalls) :
         LET i == FailedCalls[k]
             s == RememberedStatus(i - 1)
         IN /\ k <= Len(errors)
            /\ errors[k] = [name |-> "ResponseValidationError",
                            statusCode |-> s,
                            validationError |->
                              safeParse(DeclaredResponses[s], events[i].body).error,
                            request |-> req,
                            response |-> "res",
                            responseBody |-> events[i].body]
            /\ k <= Len(resolutions)
            /\ resolutions[k].error = errors[k]
    /\ Len(res.sent) <= 1

\* {success: 'yes'} failed the schema of 200 and the error handler's response
\* is the only emission.
C7_Witness ==
  /\ pc = "done"
  /\ Len(errors) = 1
  /\ IsResponseError(errors[1])
  /\ errors[1].responseBody = BadBody
  /\ errors[1].statusCode = 200
  /\ Len(res.sent) = 1
  /\ res.sent[1].body # BadBody

\* C8: resolution is entered once for a request and never re-entered.
C8_ResolutionEnteredOnce == Len(resolutions) <= 1

\* C9 as stated: the global handler installed by the last setter call before
\* the failure resolves it when the route has no per-route handler.
C9_LastSetterBeforeFailure ==
  \A i \in 1..Len(resolutions) :
    (~IsDefined(Closure.routeErrorHandler) /\ IsDefined(resolutions[i].configured)) =>
      /\ resolutions[i].by = "global"
      /\ resolutions[i].handler = resolutions[i].configured

\* The global handler configured when the validation middleware was entered.
ConfiguredAtEntry == events[1].configured

\* C9 amended: the global handler installed by the last setter call before
\* the request's validation middleware was entered resolves every failure of
\* the request when the route has no per-route handler; a handler installed
\* later is not used for that request.
C9_LastSetterBeforeEntry ==
  \A i \in 1..Len(resolutions) :
    ~IsDefined(Closure.routeErrorHandler) =>
      IF IsDefined(ConfiguredAtEntry)
      THEN /\ resolutions[i].by = "global"
           /\ resolutions[i].handler = ConfiguredAtEntry
      ELSE resolutions[i].by = "default"

\* A response failure is resolved by the handler read on entry although
\* another handler was installed before the body was emitted.
C9_Witness ==
  \E i \in 1..Len(resolutions) :
    /\ IsResponseError(resolutions[i].error)
    /\ resolutions[i].by = "global"
    /\ resolutions[i].configured # resolutions[i].handler

\* '/v/u/{id}'
RewrittenPath == <<"/", "v", "/", "u", "/", "{", "i", "d", "}">>

IsVisible(layer) == ~layer.validationMiddleware.schema.hide
VisibleLayers == SelectSeq(expressRouter, IsVisible)

\* C10: a route declared with hide: true is not in the registry and not in
\* any generated document (registry and document hold exactly the visible
\* declarations), and its validation middleware is installed and validates
\* requests and arms the response interception as for a visible route.
C10_HiddenButEnforced ==
  /\ Len(routesMetadata) = Len(VisibleLayers)
  /\ \A k \in 1..Len(routesMetadata) :
       /\ ~routesMetadata[k].schema.hide
       /\ k <= Len(VisibleLayers)
       /\ routesMetadata[k].schema = VisibleLayers[k].validationMiddleware.schema
  /\ IsDefined(document) =>
       \E n \in 0..Len(VisibleLayers) :
         document.paths = [k \in 1..n |->
                             [method |-> VisibleLayers[k].method,
                              path |-> RewrittenPath]]
  /\ pc # "idle" =>
       /\ IsPrefix(Steps, ExpectedSteps)
       /\ ValidationOver =>
            /\ Steps = ExpectedSteps
            /\ AnyFails <=> Len(RequestErrors) = 1
            /\ ~AnyFails =>
                 /\ handlerCalls = 1
                 /\ res.wrapped = Closure.schema.response.declared

\* A request to a hidden route failed validation; the document generated
\* after both declarations lists only the visible route.
C10_Witness ==
  /\ pc # "idle"
  /\ Closure.schema.hide
  /\ Len(expressRouter) = 2
  /\ IsDefined(document)
  /\ Len(document.paths) = 1
  /\ ValidationOver
  /\ Len(RequestErrors) = 1

\* ------------------------------------------------------------------- C11
UpperOf(method) == IF method = "get" THEN "GET" ELSE "POST"

\* The registry entry a visible declaration stands for.
EntryOf(layer) ==
  [method |-> UpperOf(layer.method), path |-> layer.path,
   schema |-> layer.validationMiddleware.schema]

RegistryIsVisibleDeclarations ==
  routesMetadata = [k \in 1..Len(VisibleLayers) |-> EntryOf(VisibleLayers[k])]

\* The assembler processed the registry entries in registry order.
AssembledInRegistryOrder ==
  IsDefined(document) =>
    /\ Len(document.operations) <= Len(routesMetadata)
    /\ \A k \in 1..Len(document.operations) :
         /\ document.operations[k].method = VisibleLayers[k].method
         /\ document.operations[k].path = RewrittenPath

\* A step appends at most the entry of the route it declares and leaves the
\* existing entries where and as they are.
RegistryStep ==
  /\ IsPrefix(routesMetadata, routesMetadata')
  /\ Len(expressRouter') = Len(expressRouter) => routesMetadata' = routesMetadata
  /\ Len(expressRouter') = Len(expressRouter) + 1 =>
       LET layer == expressRouter'[Len(expressRouter')] IN
       routesMetadata' = IF IsVisible(layer)
                         THEN Append(routesMetadata, EntryOf(layer))
                         ELSE routesMetadata

\* C11: the registry holds exactly one entry {upper-cased method, path,
\* schema} per non-hidden declaration of any router instance, appended by the
\* declaration itself; no step removes, reorders or modifies an entry; entry
\* order is declaration order and the order in which the assembler processes
\* the routes.
C11_RegistryAppendOnlyOrdered ==
  /\ [](RegistryIsVisibleDeclarations /\ AssembledInRegistryOrder)
  /\ [][RegistryStep]_vars

\* Two visible routes declared on different router instances with different
\* methods, and a document generated from both.
C11_Witness ==
  /\ Len(routesMetadata) = 2
  /\ expressRouter[1].router # expressRouter[2].router
  /\ routesMetadata[1].method # routesMetadata[2].method
  /\ IsDefined(document)
  /\ Len(document.operations) = 2

\* ------------------------------------------------------------ C12, C13
\* The number of files the upload middleware captured for a field name, in
\* whichever form it reports them.
CapturedCount(rq, fieldName) ==
  IF IsDefined(rq.file) /\ rq.file.fieldname = fieldName THEN 1
  ELSE IF ~IsDefined(rq.files) THEN 0
  ELSE IF "array" \in DOMAIN rq.files
  THEN (IF rq.files.array.fieldname = fieldName THEN rq.files.array.length ELSE 0)
  ELSE IF fieldName \in DOMAIN rq.files THEN rq.files[fieldName]
  ELSE 0

DeclaredFileFields == Closure.schema.files.fields

IsMissing(cfg) == cfg.required /\ CapturedCount(rawReq, cfg.fieldName) = 0
IsExcess(cfg) ==
  /\ "maxCount" \in DOMAIN cfg
  /\ CapturedCount(rawReq, cfg.fieldName) > cfg.maxCount

RECURSIVE ExpectedViolations(_)
\* The violations the claim expects, field by field from field i on.
ExpectedViolations(i) ==
  IF i > Len(DeclaredFileFields) THEN <<>>
  ELSE LET cfg == DeclaredFileFields[i] IN
       (IF IsMissing(cfg) THEN <<[field |-> cfg.fieldName, why |-> "missing"]>> ELSE <<>>)
         \o (IF IsExcess(cfg) THEN <<[field |-> cfg.fieldName, why |-> "max"]>> ELSE <<>>)
         \o ExpectedViolations(i + 1)

ParseSteps == {i \in 1..Len(Steps) : Steps[i][1] = "parse"}

\* C12: every required field without a captured file and every field whose
\* captured count exceeds its declared max-count is a violation; all of them
\* are reported in one RequestValidationError (segment 'body', path
\* ['files']) before any segment is parsed; with none, no error is produced
\* by the files-check.
C12_AllFileViolationsTogether ==
  (ValidationOver /\ Closure.schema.files.declared) =>
    IF ExpectedViolations(1) # <<>>
    THEN /\ Len(RequestErrors) = 1
         /\ RequestErrors[1].segment = "body"
         /\ RequestErrors[1].validationError.path = <<"files">>
         /\ RequestErrors[1].validationError.message = ExpectedViolations(1)
         /\ ParseSteps = {}
    ELSE \A k \in 1..Len(RequestErrors) :
           RequestErrors[k].validationError.path # <<"files">>

\* C13: a required field with at least one captured file, in any form the
\* upload middleware reports it, is not reported missing.
C13_CapturedFileIsPresent ==
  (ValidationOver /\ Closure.schema.files.declared) =>
    \A i \in 1..Len(DeclaredFileFields) :
      LET cfg == DeclaredFileFields[i] IN
      (cfg.required /\ CapturedCount(rawReq, cfg.fieldName) >= 1) =>
        \A k \in 1..Len(RequestErrors) :
          RequestErrors[k].validationError.path = <<"files">> =>
            \A j \in 1..Len(RequestErrors[k].validationError.message) :
              RequestErrors[k].validationError.message[j]
                # [field |-> cfg.fieldName, why |-> "missing"]

\* ------------------------------------------------------------------- C14
MiddlewareEvents == SelectSeq(events, IsMiddlewareEvent)
MiddlewaresRun == [k \in 1..Len(MiddlewareEvents) |-> MiddlewareEvents[k].name]

\* m1..mk of the declarations of SpecMw.
DeclaredMiddlewareLists ==
  {<<>>, <<"upload">>, <<"auth", "upload">>, <<"upload", "auth">>}

PositionsOf(op) == {i \in 1..Len(events) : events[i].op = op}

\* C14: a request to a route declared with (path, options, m1..mk, handler)
\* runs m1..mk in the given order, each observing the raw request, then the
\* validation middleware, then the handler (the last argument), which runs
\* only after validation has succeeded.
C14_MiddlewaresThenValidationThenHandler ==
  pc # "idle" =>
    /\ Layer.handler = "handler"
    /\ Layer.middlewares \in DeclaredMiddlewareLists
    /\ IsPrefix(MiddlewaresRun, Layer.middlewares)
    /\ \A k \in 1..Len(MiddlewareEvents) : MiddlewareEvents[k].body = rawReq.body
    /\ \A e \in PositionsOf("enter") :
         /\ MiddlewaresRun = Layer.middlewares
         /\ \A m \in PositionsOf("middleware") : m < e
    /\ pc \notin {"middleware"} => MiddlewaresRun = Layer.middlewares
    /\ \A n \in PositionsOf("next") :
         /\ PositionsOf("enter") # {}
         /\ \A e \in PositionsOf("enter") \cup PositionsOf("middleware")
                       \cup PositionsOf("parse") \cup PositionsOf("replace") : e < n
         /\ ~AnyFails
    /\ handlerCalls = Cardinality(PositionsOf("next"))

\* The handler runs after 'auth' and 'upload' ran in that order and the
\* files-check accepted the file the upload middleware captured.
C14_Witness ==
  /\ pc = "handler"
  /\ MiddlewaresRun = <<"auth", "upload">>
  /\ Closure.schema.files.declared
  /\ IsDefined(req.file)
  /\ handlerCalls = 1

\* ------------------------------------------------------------------- C15
RECURSIVE LastStatusSet(_)
\* The status most recently set on the running request's own response up to
\* its event i (200 if none).
LastStatusSet(i) ==
  IF i = 0 THEN 200
  ELSE IF events[i].op = "res.status" THEN events[i].code
  ELSE LastStatusSet(i - 1)

\* The other request is in flight too: dispatched and not finished.
BothInFlight ==
  /\ IsDefined(parked)
  /\ pc \notin {"idle", "done"}
  /\ parked.pc \notin {"idle", "done"}

\* C15: with two requests to the same route in flight, interleaved at the
\* awaits of the middleware and inside the handlers, a request's remembered
\* status and its containers are those of its own status calls and of its
\* own parsed input, and each body it emits is checked against the schema of
\* the status set on its own response.
C15_NoSharedRequestState ==
  pc # "idle" =>
    /\ res.statusCode = LastStatusSet(Len(events))
    /\ res.wrapped => mw.currentStatusCode = RememberedStatus(Len(events))
    /\ req.body = IF WasReplaced("body") THEN ParsedOf("body") ELSE rawReq.body
    /\ \A i \in JsonCalls :
         /\ events[i].failed = (res.wrapped /\ ShouldFail(i))
         /\ events[i].emitted = ~events[i].failed
    /\ res.sent = [k \in 1..Len(EmittedCalls) |->
                     [status |-> LastStatusSet(EmittedCalls[k] - 1),
                      body |-> events[EmittedCalls[k]].body]]

\* Both handlers are running; this one has set 201 on its response and the
\* other one 200, and the body emitted here went out under 201 unchecked.
C15_Witness ==
  /\ IsDefined(parked)
  /\ pc = "done"
  /\ parked.pc = "handler"
  /\ parked.res.statusCode = 200
  /\ parked.mw.statusCalls = 1
  /\ res.sent = <<[status |-> 201, body |-> BadBody]>>
  /\ WasReplaced("body")

\* ------------------------------------------------------------------- C16
\* Two calls read the same registry contents, global config and arguments.
SameInputs(first, second) ==
  /\ first.routes = second.routes
  /\ first.config = second.config
  /\ first.basePath = second.basePath

\* The document in hand was produced from what the last call read: one
\* operation per registry entry of that moment.
ReflectsRegistryAtCall ==
  IsDefined(document) =>
    /\ IsDefined(lastCall)
    /\ IsPrefix(lastCall.routes, routesMetadata)
    /\ Len(document.operations) = Len(lastCall.routes)
    /\ \A k \in 1..Len(document.operations) :
         UpperOf(document.operations[k].method) = lastCall.routes[k].method

GenerationStep ==
  /\ (IsDefined(lastCall) /\ IsDefined(lastCall') /\ SameInputs(lastCall, lastCall'))
       => document' = document
  /\ document' # document
       => (routesMetadata' = routesMetadata /\ config' = config)
  /\ (routesMetadata' # routesMetadata \/ config' # config)
       => document' = document

ParametersIn(op, location) ==
  LET atLocation(p) == p.in = location
  IN IF "parameters" \in DOMAIN op THEN SelectSeq(op.parameters, atLocation)
     ELSE <<>>

FieldNames(zschema) ==
  IF IsDefined(zschema) /\ zschema.typeName = "ZodObject"
  THEN ShapeKeys(zschema) ELSE <<>>

\* One parameter per field of the segment's object schema, in field order.
OneParameterPerField(op, location, zschema) ==
  LET ps == ParametersIn(op, location)
  IN /\ Len(ps) = Len(FieldNames(zschema))
     /\ \A j \in 1..Len(ps) : ps[j].name = FieldNames(zschema)[j]

\* The contract the k-th operation of the document was generated from.
ContractOf(k) == lastCall.routes[k].schema

\* C17: every field of an object params schema yields exactly one parameter
\* with in: 'path' and required: true, optional field schema or not; query
\* and header parameters have required equal to the negation of the field's
\* isOptional(); the path key has {id} for :id.
C17_PathParametersAlwaysRequired ==
  IsDefined(document) =>
    \A k \in 1..Len(document.operations) :
      LET op == document.operations[k] IN
      /\ op.path = RewrittenPath
      /\ document.paths[k].path = RewrittenPath
      /\ OneParameterPerField(op, "path", ContractOf(k).params)
      /\ OneParameterPerField(op, "query", ContractOf(k).querystring)
      /\ OneParameterPerField(op, "header", ContractOf(k).headers)
      /\ \A j \in 1..Len(ParametersIn(op, "path")) :
           ParametersIn(op, "path")[j].required = TRUE
      /\ \A j \in 1..Len(ParametersIn(op, "query")) :
           LET p == ParametersIn(op, "query")[j] IN
           p.required = ~isOptional(ContractOf(k).querystring.shape[p.name])
      /\ \A j \in 1..Len(ParametersIn(op, "header")) :
           LET p == ParametersIn(op, "header")[j] IN
           p.required = ~isOptional(ContractOf(k).headers.shape[p.name])
      /\ "parameters" \in DOMAIN op =>
           Len(op.parameters) = Len(ParametersIn(op, "path"))
                                  + Len(ParametersIn(op, "query"))
                                  + Len(ParametersIn(op, "header"))

\* A documented route whose params schema marks id optional: its one path
\* parameter is id, required; its optional query field q and its nullish
\* header x-trace are not required, page and x-key are.
C17_Witness ==
  /\ IsDefined(document)
  /\ \E k \in 1..Len(document.operations) :
       LET op == document.operations[k] IN
       /\ isOptional(ContractOf(k).params.shape["id"])
       /\ Len(ParametersIn(op, "path")) = 1
       /\ ParametersIn(op, "path")[1].name = "id"
       /\ ParametersIn(op, "path")[1].required
       /\ [j \in 1..2 |-> ParametersIn(op, "query")[j].required] = <<TRUE, FALSE>>
       /\ [j \in 1..2 |-> ParametersIn(op, "header")[j].required] = <<FALSE, TRUE>>

\* ------------------------------------------------------------------- C18
\* The global default responses in force when the document was generated.
DefaultsAtCall == lastCall.config.defaultResponses

StatusCodesOf(response) == IF response.declared THEN DOMAIN response.map ELSE {}

\* The entry documented for a status code carries this schema.
Documents(entry, code, zschema) ==
  /\ entry.description = "Response " \o ToString(code)
  /\ entry.content.mediaType = "application/json"
  /\ entry.content.schema = zschema

IsBare200(responses) ==
  /\ DOMAIN responses = {200}
  /\ DOMAIN responses[200] = {"description"}
  /\ responses[200].description = "Successful response"

\* C18: the responses of each operation are the global default response
\* schemas overlaid with the route's own: the route's entry stands for every
\* status code the route declares, the default's for every other status code
\* of the defaults; the bare generic 200 is emitted exactly when the route
\* declares no response map and no global defaults are set.
C18_DefaultsThenRouteResponses ==
  IsDefined(document) =>
    \A k \in 1..Len(document.operations) :
      LET responses == document.operations[k].responses
          own == ContractOf(k).response
          bare == ~own.declared /\ ~DefaultsAtCall.declared
      IN /\ bare <=> IsBare200(responses)
         /\ ~bare =>
              /\ DOMAIN responses = StatusCodesOf(own) \cup StatusCodesOf(DefaultsAtCall)
              /\ \A c \in StatusCodesOf(own) :
                   Documents(responses[c], c, own.map[c])
              /\ \A c \in StatusCodesOf(DefaultsAtCall) \ StatusCodesOf(own) :
                   Documents(responses[c], c, DefaultsAtCall.map[c])

\* With defaults for 400 and 500 set, a route declaring its own 500 is
\* documented with its own 500 and the default 400, and a route declaring no
\* response map with the two defaults and no bare 200.
C18_Witness ==
  /\ IsDefined(document)
  /\ Len(document.operations) = 2
  /\ StatusCodesOf(DefaultsAtCall) = {400, 500}
  /\ StatusCodesOf(ContractOf(1).response) = {500}
  /\ document.operations[1].responses[500].content.schema = ErrorSchema
  /\ document.operations[1].responses[400].content.schema = MessageSchema
  /\ ~ContractOf(2).response.declared
  /\ DOMAIN document.operations[2].responses = {400, 500}

\* ------------------------------------------------------------------- C19
\* What a wrapper is wrapped around.
InnerOf(node) ==
  CASE node.typeName \in {"ZodOptional", "ZodNullable", "ZodDefault",
                          "ZodReadonly", "ZodCatch"} -> node.innerType
    [] node.typeName = "ZodEffects" -> node.schema
    [] node.typeName = "ZodBranded" -> node.type
    [] node.typeName = "ZodPipeline" -> node.out

IsWrapper(node) ==
  /\ "typeName" \in DOMAIN node
  /\ node.typeName \in {"ZodOptional", "ZodNullable", "ZodDefault", "ZodReadonly",
                     "ZodCatch", "ZodEffects", "ZodBranded", "ZodPipeline"}

RECURSIVE Unwrapped(_)
\* The schema under all the wrappers.
Unwrapped(node) == IF IsWrapper(node) THEN Unwrapped(InnerOf(node)) ELSE node

RECURSIVE StackOf(_)
\* The wrappers around the schema, outermost first.
StackOf(node) ==
  IF IsWrapper(node) THEN <<node.typeName>> \o StackOf(InnerOf(node)) ELSE <<>>

\* The fields of a fragment that come from the kind of the schema, not from
\* a wrapper or a description.
KindDerived(fragment) ==
  [k \in (DOMAIN fragment) \ {"nullable", "default", "readOnly", "description"} |->
     fragment[k]]

HasNullable(node) ==
  \E j \in 1..Len(StackOf(node)) : StackOf(node)[j] = "ZodNullable"

\* C19: the fragment translated from a schema under any stack of wrappers
\* has the kind-derived fields of the fragment translated from the schema
\* under the wrappers, whatever the number and order of the layers; a stack
\* with a nullable (or nullish) layer anywhere gives nullable: true, and
\* optional(nullable(string)) and nullable(optional(string)) give the same
\* fragment.
C19_WrappersKeepKindDerivedFields ==
  IsDefined(openApiSchema) =>
    /\ KindDerived(openApiSchema)
         = KindDerived(zodSchemaToOpenAPISchema(Unwrapped(schemaNode)))
    /\ HasNullable(schemaNode) =>
         ("nullable" \in DOMAIN openApiSchema /\ openApiSchema.nullable = TRUE)
    /\ (Unwrapped(schemaNode) = ZString
          /\ StackOf(schemaNode) \in {<<"ZodOptional", "ZodNullable">>,
                                      <<"ZodNullable", "ZodOptional">>})
         => openApiSchema = [type |-> "string", nullable |-> TRUE]

\* z.number().int().max(9) under three layers, the nullable one innermost,
\* translated to an integer fragment with its maximum and nullable: true.
C19_Witness ==
  /\ IsDefined(openApiSchema)
  /\ Unwrapped(schemaNode) = SmallInt
  /\ Len(StackOf(schemaNode)) = 3
  /\ StackOf(schemaNode)[3] = "ZodNullable"
  /\ StackOf(schemaNode)[1] = "ZodPipeline"
  /\ openApiSchema.type = "integer"
  /\ openApiSchema.maximum = 9
  /\ openApiSchema.nullable

\* ------------------------------------------------------------------- C20
\* The object schema under the wrappers, when there is one.
TranslatedObject ==
  /\ IsDefined(openApiSchema)
  /\ "typeName" \in DOMAIN Unwrapped(schemaNode)
  /\ Unwrapped(schemaNode).typeName = "ZodObject"

\* The names of the fields whose isOptional() reports false, in field order.
NotOptionalFields(object) ==
  LET reportsFalse(k) == ~isOptional(object.shape[k])
  IN SelectSeq(object.keys, reportsFalse)

Listed(names, k) == \E j \in 1..Len(names) : names[j] = k

\* C20: the required list of the fragment of an object schema holds exactly
\* the names of the fields whose isOptional() reports false, in field order;
\* a field wrapped in optional (nullish included) is not in it; every field
\* is in properties; with no field required there is no required key; for
\* {a: required, b: optional} the list is [a].
C20_RequiredListsNonOptionalFields ==
  TranslatedObject =>
    LET object == Unwrapped(schemaNode)
        expected == NotOptionalFields(object)
    IN /\ DOMAIN openApiSchema.properties = {object.keys[j] : j \in 1..Len(object.keys)}
       /\ IF expected = <<>>
          THEN "required" \notin DOMAIN openApiSchema
          ELSE /\ "required" \in DOMAIN openApiSchema
               /\ openApiSchema.required = expected
               /\ \A k \in DOMAIN object.shape :
                    object.shape[k].typeName = "ZodOptional"
                      => ~Listed(openApiSchema.required, k)
       /\ object = RequiredAndOptional => openApiSchema.required = <<"a">>
       /\ object = NothingRequired => "required" \notin DOMAIN openApiSchema

\* The schema with fields d nullable, c defaulted, b any and a boolean,
\* under a wrapper, translated: d and a are required, in that order.
C20_Witness ==
  /\ TranslatedObject
  /\ Unwrapped(schemaNode) = MixedFields
  /\ Len(StackOf(schemaNode)) >= 1
  /\ openApiSchema.required = <<"d", "a">>
  /\ DOMAIN openApiSchema.properties = {"a", "b", "c", "d"}

\* ------------------------------------------------------------------- C21
\* The kind tags the translator has an arm for.
RecognizedKinds ==
  {"ZodOptional", "ZodNullable", "ZodDefault", "ZodEffects", "ZodNullish",
   "ZodBranded", "ZodReadonly", "ZodCatch", "ZodPipeline", "ZodLazy",
   "ZodString", "ZodNumber", "ZodBoolean", "ZodArray", "ZodObject", "ZodEnum",
   "ZodNativeEnum", "ZodLiteral", "ZodUnion", "ZodIntersection", "ZodRecord",
   "ZodTuple", "ZodDate", "ZodBigInt", "ZodNull", "ZodUndefined", "ZodVoid",
   "ZodNever", "ZodMap", "ZodSet", "ZodDiscriminatedUnion", "ZodFunction",
   "ZodPromise", "ZodAny", "ZodUnknown"}

\* The schema in hand is the one the translator was last called with.
TranslatedNow == IsDefined(lastCall) /\ "schema" \in DOMAIN lastCall
                   /\ lastCall.schema = schemaNode

Introspectable(node) == "typeName" \in DOMAIN node

Unrecognized(node) ==
  ~Introspectable(node) \/ node.typeName \notin RecognizedKinds

\* {type: 'string'} plus the description of the value, if it has one.
StringWithDescriptionOf(node) ==
  IF "description" \in DOMAIN node
  THEN [type |-> "string", description |-> node.description]
  ELSE [type |-> "string"]

\* C21 as stated: every value whose kind tag is not recognized, a value with
\* no introspectable definition included, is translated to {type: 'string'}
\* plus its description if any; an absent schema to undefined.
C21_UnrecognizedIsDescribedString ==
  TranslatedNow =>
    /\ ~IsDefined(schemaNode) => openApiSchema = Undefined
    /\ (IsDefined(schemaNode) /\ Unrecognized(schemaNode))
         => openApiSchema = StringWithDescriptionOf(schemaNode)

\* C21 amended: a definition with an unrecognized (or no) kind tag is
\* translated to {type: 'string'} plus its description if any; a value with
\* no introspectable definition to {type: 'string'} alone, whatever
\* description property it has; an absent schema to undefined.
C21_UnrecognizedIsString ==
  TranslatedNow =>
    /\ ~IsDefined(schemaNode) => openApiSchema = Undefined
    /\ (IsDefined(schemaNode) /\ Unrecognized(schemaNode)) =>
         openApiSchema = IF Introspectable(schemaNode)
                         THEN StringWithDescriptionOf(schemaNode)
                         ELSE [type |-> "string"]

\* A described definition of an unknown kind was translated to a described
\* string fragment.
C21_Witness ==
  /\ TranslatedNow
  /\ schemaNode = Describe(FutureKind, "note")
  /\ openApiSchema = [type |-> "string", description |-> "note"]

\* ------------------------------------------------------------------- C22
GenericMessage == Str("Internal error: server response does not match expected schema.")

IsDefaultResponseFailure(i) ==
  /\ resolutions[i].by = "default"
  /\ resolutions[i].error.name = "ResponseValidationError"

\* C22: with no custom error handler, the response produced for a
\* response-contract failure carries the generic message and the status
\* marker only, under status 500, and no field-level failure detail.
C22_DefaultResponseFailureHidesDetail ==
  \A i \in 1..Len(resolutions) :
    IsDefaultResponseFailure(i) =>
      /\ Len(res.sent) = 1
      /\ res.sent[1].status = 500
      /\ DOMAIN res.sent[1].body = {"message", "status"}
      /\ res.sent[1].body.message = GenericMessage

\* ------------------------------------------------------------------- C23
IsLazy(node) == "typeName" \in DOMAIN node /\ node.typeName = "ZodLazy"

\* The schemas directly nested in a schema; a lazy node has none: what its
\* getter returns is not part of it.
NestedIn(node) ==
  IF ~IsDefined(node) \/ "typeName" \notin DOMAIN node \/ IsLazy(node) THEN {}
  ELSE IF IsWrapper(node) THEN {InnerOf(node)}
  ELSE IF node.typeName = "ZodArray" THEN {node.type}
  ELSE IF node.typeName = "ZodObject" THEN {node.shape[k] : k \in DOMAIN node.shape}
  ELSE {}

RECURSIVE NestingDepth(_)
\* The nesting depth of the non-lazy part of a schema.
NestingDepth(node) ==
  1 + MaxOf({NestingDepth(n) : n \in NestedIn(node)})

\* {type: 'object'} plus the description of the node, if it has one.
OpaqueObjectOf(node) ==
  IF "description" \in DOMAIN node
  THEN [type |-> "object", description |-> node.description]
  ELSE [type |-> "object"]

\* C23: the translation of every schema ends, the self-referential ones
\* included: a lazy node is translated to {type: 'object'} (with its
\* description) and what it refers to is not translated, where the lazy node
\* is the schema itself and where it is nested in the schema; the depth of
\* the recursion is at most the nesting depth of the non-lazy part.
C23_LazyIsOpaqueAndTranslationEnds ==
  TranslatedNow =>
    /\ recursionDepth(schemaNode) <= NestingDepth(schemaNode)
    /\ (IsDefined(schemaNode) /\ IsLazy(Unwrapped(schemaNode))) =>
         KindDerived(openApiSchema) = [type |-> "object"]
    /\ (IsDefined(schemaNode) /\ IsLazy(schemaNode)) =>
         openApiSchema = OpaqueObjectOf(schemaNode)
    /\ (IsDefined(schemaNode) /\ Unwrapped(schemaNode) = Category) =>
         openApiSchema.properties["children"]
           = [type |-> "array", items |-> [type |-> "object"]]

\* The self-referential Category schema, under a wrapper, was translated:
\* its children are an array of opaque objects.
C23_Witness ==
  /\ TranslatedNow
  /\ Unwrapped(schemaNode) = Category
  /\ Len(StackOf(schemaNode)) >= 1
  /\ openApiSchema.properties["children"].items = [type |-> "object"]
  /\ recursionDepth(schemaNode) = Len(StackOf(schemaNode)) + 3

\* ------------------------------------------------------------------- C24
\* The fields of the object a segment schema is after unwrapping (none for
\* an absent schema and for one that is no object after unwrapping).
FieldsAfterUnwrapping(zschema) ==
  IF ~IsDefined(zschema) THEN <<>>
  ELSE IF Unwrapped(zschema).typeName = "ZodObject" THEN Unwrapped(zschema).keys
  ELSE <<>>

DescriptorsMatch(op, location, zschema) ==
  LET ps == ParametersIn(op, location)
      names == FieldsAfterUnwrapping(zschema)
  IN /\ Len(ps) = Len(names)
     /\ \A j \in 1..Len(ps) : ps[j].name = names[j] /\ ps[j].in = location

\* C24: for each location, the operation has no parameter when the segment
\* schema is absent or is no object after unwrapping, and exactly one
\* parameter per field, in field order, named after the field and placed at
\* the location, when the schema is an object after unwrapping its wrappers
\* (a bare object, or an object in optional or effects).
C24_OneDescriptorPerFieldAfterUnwrapping ==
  IsDefined(document) =>
    \A k \in 1..Len(document.operations) :
      /\ DescriptorsMatch(document.operations[k], "path", ContractOf(k).params)
      /\ DescriptorsMatch(document.operations[k], "query", ContractOf(k).querystring)
      /\ DescriptorsMatch(document.operations[k], "header", ContractOf(k).headers)

\* ------------------------------------------------------------------- C25
\* The characters a parameter name is made of.
NameCharacters == {"a", "b", "d", "i", "n", "j", "s", "u", "p", "f", "h", "v"}

RECURSIVE NameEnd(_, _)
\* End of the parameter name that starts at position i of a template.
NameEnd(template, i) ==
  IF i > Len(template) \/ template[i] \notin NameCharacters THEN i - 1
  ELSE NameEnd(template, i + 1)

RECURSIVE BracketNotation(_, _)
\* The template from position i on with every ':name' written '{name}'.
BracketNotation(template, i) ==
  IF i > Len(template) THEN <<>>
  ELSE IF template[i] = ":" /\ NameEnd(template, i + 1) >= i + 1
  THEN <<"{">> \o SubSeq(template, i + 1, NameEnd(template, i + 1)) \o <<"}">>
         \o BracketNotation(template, NameEnd(template, i + 1) + 1)
  ELSE <<template[i]>> \o BracketNotation(template, i + 1)

HasMarker(key) == \E j \in 1..Len(key) : key[j] = ":"

\* C25: the path key of every documented route is basePath followed by the
\* route path with every ':name' rewritten to '{name}', and holds no ':'
\* marker: with one or several named segments, with two named segments in
\* one path segment, with a literal suffix after a named segment.
C25_PathKeyInBracketNotation ==
  IsDefined(document) =>
    \A k \in 1..Len(document.operations) :
      /\ document.operations[k].path
           = lastCall.basePath \o BracketNotation(lastCall.routes[k].path, 1)
      /\ ~HasMarker(document.operations[k].path)

\* The part of it that is about templates whose named segments each fill a
\* whole path segment.
WholeSegmentNames(template) ==
  \A j \in 1..Len(template) :
    template[j] = ":" =>
      /\ template[j - 1] = "/"
      /\ (NameEnd(template, j + 1) = Len(template)
           \/ template[NameEnd(template, j + 1) + 1] = "/")

C25_WholeSegmentsRewritten ==
  IsDefined(document) =>
    \A k \in 1..Len(document.operations) :
      WholeSegmentNames(lastCall.routes[k].path) =>
        /\ document.operations[k].path
             = lastCall.basePath \o BracketNotation(lastCall.routes[k].path, 1)
        /\ ~HasMarker(document.operations[k].path)

\* ------------------------------------------------------------------- C26
GlobalDefaults == config.defaultResponses

HasDefaultOnly(code) ==
  /\ GlobalDefaults.declared
  /\ code \in DOMAIN GlobalDefaults.map
  /\ code \notin DOMAIN DeclaredResponses

NoResponseError ==
  \A j \in 1..Len(errors) : errors[j].name # "ResponseValidationError"

\* C26: the global default responses are documented and never enforced: a
\* body emitted under a status without per-route schema is forwarded and no
\* response error arises, global default schema for that status or not; on a
\* route without response map the response primitives are not intercepted
\* and every body is forwarded.
C26_DefaultsNotEnforced ==
  /\ pc # "idle" =>
       /\ \A i \in JsonCalls :
            LastStatusSet(i - 1) \notin DOMAIN DeclaredResponses
              => (events[i].emitted /\ ~events[i].failed)
       /\ ~Closure.schema.response.declared =>
            /\ ~res.wrapped
            /\ NoResponseError
            /\ \A i \in JsonCalls : events[i].emitted /\ ~events[i].failed
  /\ (IsDefined(document) /\ DefaultsAtCall.declared) =>
       \A k \in 1..Len(document.operations) :
         DOMAIN DefaultsAtCall.map \subseteq DOMAIN document.operations[k].responses

\* With a global default schema for 201 set, a route declaring a schema for
\* 200 only emitted, under 201, a body the default schema does not accept.
C26_Witness ==
  /\ pc = "done"
  /\ res.wrapped
  /\ HasDefaultOnly(201)
  /\ ~safeParse(GlobalDefaults.map[201], BadBody).success
  /\ res.sent = <<[status |-> 201, body |-> BadBody]>>
  /\ NoResponseError

\* ------------------------------------------------------------------- C27
ClaimedPosition(seg) == CHOOSE i \in 1..4 : ClaimedOrder[i] = seg

IsSegmentFailure(e) ==
  e.name = "RequestValidationError" /\ e.segment \in SegmentNames

\* What the container of a segment holds once the segment passed.
UpdatedContainer(seg) ==
  IF seg = "headers" THEN ObjectAssign(rawReq.headers, ParsedOf("headers"))
  ELSE ParsedOf(seg)

\* C27: once a segment failed, every declared segment before it in the order
\* body, querystring, params, headers holds its parsed value, the failing
\* segment and every later one (and every undeclared one) its raw input, and
\* the request the RequestValidationError refers to is this partially
\* updated request.
C27_PartiallyUpdatedOnFailure ==
  \A j \in 1..Len(errors) :
    IsSegmentFailure(errors[j]) =>
      /\ \A seg \in SegmentNames :
           req[ContainerOf(seg)] =
             IF Declared(seg) /\ ClaimedPosition(seg) < ClaimedPosition(errors[j].segment)
             THEN UpdatedContainer(seg)
             ELSE rawReq[ContainerOf(seg)]
      /\ errors[j].request = req

\* Params failed after body and querystring passed: the two hold their
\* parsed values, which differ from the raw input, params and headers the
\* raw input.
C27_Witness ==
  /\ Len(errors) = 1
  /\ IsSegmentFailure(errors[1])
  /\ errors[1].segment = "params"
  /\ Declared("body") /\ Declared("querystring") /\ Declared("headers")
  /\ req.body = ParsedOf("body") /\ req.body # rawReq.body
  /\ req.query = ParsedOf("querystring")
  /\ req.params = rawReq.params
  /\ req.headers = rawReq.headers
  /\ errors[1].request = req
  /\ errors[1].request # rawReq

\* ------------------------------------------------------------------- C28
\* The res.json calls of the handler whose body went to the original emit
\* primitive, in order.
HandlerEmissions == EmittedCalls

\* C28: what reaches the original emit primitive is the value the handler
\* passed to res.json, checked against a schema or not, never the schema's
\* parsed output; the status the handler set reaches the original set-status
\* primitive unchanged.
C28_EmittedAsPassed ==
  (pc # "idle" /\ resolutions = <<>>) =>
    /\ Len(res.sent) = Len(HandlerEmissions)
    /\ \A k \in 1..Len(HandlerEmissions) :
         /\ res.sent[k].body = events[HandlerEmissions[k]].body
         /\ res.sent[k].status = LastStatusSet(HandlerEmissions[k] - 1)
    /\ res.statusCode = LastStatusSet(Len(events))

\* A body with a key the 200 schema strips passed the check and was emitted
\* with that key.
C28_Witness ==
  /\ pc = "done"
  /\ res.wrapped
  /\ 200 \in DOMAIN DeclaredResponses
  /\ safeParse(DeclaredResponses[200], ExtraBody).success
  /\ safeParse(DeclaredResponses[200], ExtraBody).data # ExtraBody
  /\ res.sent = <<[status |-> 200, body |-> ExtraBody]>>

\* ------------------------------------------------------------------- C29
\* C29: the response primitives are intercepted only once every declared
\* request check has passed; while and after a files or request-segment
\* failure is resolved they are the original ones, so what the error handler
\* emits is forwarded unchecked and no response-validation error arises.
C29_InterceptionAfterRequestChecks ==
  pc # "idle" =>
    /\ res.wrapped =>
         /\ ValidationOver
         /\ RequestErrors = <<>>
         /\ \A seg \in SegmentNames : Declared(seg) => WasReplaced(seg)
    /\ RequestErrors # <<>> =>
         /\ ~res.wrapped
         /\ ResponseErrors = <<>>
         /\ \A i \in JsonCalls : events[i].emitted /\ ~events[i].failed

\* On a route with response schemas, params failed after the body passed,
\* and the per-route handler's failure response went out.
C29_Witness ==
  /\ pc = "done"
  /\ Closure.schema.response.declared
  /\ Len(RequestErrors) = 1
  /\ RequestErrors[1].segment = "params"
  /\ WasReplaced("body")
  /\ ~res.wrapped
  /\ Len(res.sent) = 1
  /\ res.sent[1].status = customErrorHandler(RequestErrors[1]).code

\* ------------------------------------------------------------------- C30
\* C30: every operation of a generated document has at least one response
\* entry, whether the route's response map is absent, empty or not empty
\* and whether the global default responses are unset, empty or not empty.
C30_EveryOperationHasAResponse ==
  IsDefined(document) =>
    \A k \in 1..Len(document.operations) :
      DOMAIN document.operations[k].responses # {}

====
